---- MODULE Spec2Model ----
(***************************************************************************)
(* Appointment booking core of the clinic assistant: the schedule store    *)
(* (MedicalDBService), the booking orchestrator with its extraction of     *)
(* dates from texts (AppointmentService), and the appointment turns of the *)
(* agent (MedicalAgent.handle_appointment_booking).                        *)
(*                                                                         *)
(* Texts are sequences of one-character strings.  Cyrillic letters are     *)
(* written with one ASCII token per letter (t e r a p e v t), capitals as  *)
(* capital tokens, Latin letters with a leading underscore (_t _h ...).    *)
(* Dates and times are the strings the code passes around ("2024-01-01",   *)
(* "09:00"), parsed by StrpDate / StrpTime as datetime.strptime does.      *)
(***************************************************************************)
EXTENDS Integers, Sequences, FiniteSets, TLC

VARIABLES
    appointments,   \* self.data["appointments"]: list of appointment dicts
    patients,       \* self.data["patients"]: list of patient dicts
    persisted,      \* the JSON document on disk written by _save_data
    now,            \* the wall clock read by datetime.now(), in ticks
    last,           \* the most recent call and what it returned
    pc,             \* per conversation: position inside book_appointment
    loc,            \* per conversation: the locals of book_appointment
    appointment_context,   \* MedicalAgent.appointment_context: a dict
    turn,           \* the most recent handle_appointment_booking turn
    parsed          \* the most recent parse_date_from_text call and its result

vars == <<appointments, patients, persisted, now, last, pc, loc,
          appointment_context, turn, parsed>>

-----------------------------------------------------------------------------
(* Bounds of the model.                                                    *)

MaxAppointments == 2
MaxNow == 1
TicksPerDay == 2

-----------------------------------------------------------------------------
(* Python values.                                                          *)

\* v bound to a name inside F: the value is computed once, like a Python
\* local variable.
With(v, F(_)) == CHOOSE r \in {F(bound) : bound \in {v}} : TRUE

\* None, a value that is no text (texts hold one character per element).
None == <<"None">>

\* Python truthiness of an optional text: None and "" are falsy.
Falsy(s) == \E x \in {s} : x = None \/ x = <<>>

\* The empty dict {}.
EmptyDict == [x \in {} |-> x]

DigitChars == {"0", "1", "2", "3", "4", "5", "6", "7", "8", "9"}

DigitVal(c) ==
    CASE c = "0" -> 0 [] c = "1" -> 1 [] c = "2" -> 2 [] c = "3" -> 3
      [] c = "4" -> 4 [] c = "5" -> 5 [] c = "6" -> 6 [] c = "7" -> 7
      [] c = "8" -> 8 [] c = "9" -> 9

DigitChar(n) ==
    CASE n = 0 -> "0" [] n = 1 -> "1" [] n = 2 -> "2" [] n = 3 -> "3"
      [] n = 4 -> "4" [] n = 5 -> "5" [] n = 6 -> "6" [] n = 7 -> "7"
      [] n = 8 -> "8" [] n = 9 -> "9"

AllDigits(s) == \A i \in 1..Len(s) : s[i] \in DigitChars

\* int() of a run of decimal digits.
RECURSIVE IntOfFirst(_, _)
IntOfFirst(s, n) ==
    IF n = 0 THEN 0 ELSE 10 * IntOfFirst(s, n - 1) + DigitVal(s[n])

IntOf(s) == IntOfFirst(s, Len(s))

\* str(n) for n >= 0.
RECURSIVE StrOf(_)
StrOf(n) ==
    IF n < 10 THEN <<DigitChar(n)>>
    ELSE StrOf(n \div 10) \o <<DigitChar(n % 10)>>

\* f"{n:0{w}d}": left-padded with zeros to at least w characters.
RECURSIVE ZeroPad(_, _)
ZeroPad(n, w) ==
    IF Len(StrOf(n)) >= w THEN StrOf(n) ELSE <<"0">> \o ZeroPad(n, w - 1)

\* str.lower() on the letters that occur in the data.
LowerChar(c) ==
    CASE c = "A" -> "a" [] c = "V" -> "v" [] c = "D" -> "d" [] c = "E" -> "e"
      [] c = "I" -> "i" [] c = "K" -> "k" [] c = "L" -> "l" [] c = "M" -> "m"
      [] c = "N" -> "n" [] c = "O" -> "o" [] c = "P" -> "p" [] c = "R" -> "r"
      [] c = "S" -> "s" [] c = "F" -> "f" [] c = "Z" -> "z" [] c = "T" -> "t"
      [] OTHER -> c

Lower(s) == [i \in 1..Len(s) |-> LowerChar(s[i])]

\* needle in hay (substring test).
Contains(hay, needle) ==
    \E i \in 0..(Len(hay) - Len(needle)) :
        SubSeq(hay, i + 1, i + Len(needle)) = needle

-----------------------------------------------------------------------------
(* datetime: the proleptic Gregorian calendar, as Python's datetime.       *)

Invalid == -1

IsLeap(y) == (y % 4 = 0) /\ ((y % 100 # 0) \/ (y % 400 = 0))

DaysInMonth(y, m) ==
    CASE m \in {1, 3, 5, 7, 8, 10, 12} -> 31
      [] m \in {4, 6, 9, 11} -> 30
      [] OTHER -> IF IsLeap(y) THEN 29 ELSE 28

DaysBeforeYear(y) ==
    (y - 1) * 365 + ((y - 1) \div 4) - ((y - 1) \div 100) + ((y - 1) \div 400)

RECURSIVE DaysBeforeMonth(_, _)
DaysBeforeMonth(y, m) ==
    IF m = 1 THEN 0 ELSE DaysBeforeMonth(y, m - 1) + DaysInMonth(y, m - 1)

\* date.toordinal(): 0001-01-01 is day 1.
ToOrdinal(y, m, d) == DaysBeforeYear(y) + DaysBeforeMonth(y, m) + d

RECURSIVE YearFrom(_, _)
YearFrom(n, y) == IF n > DaysBeforeYear(y + 1) THEN YearFrom(n, y + 1) ELSE y

RECURSIVE MonthFrom(_, _, _)
MonthFrom(n, y, m) ==
    IF n > DaysBeforeMonth(y, m) + DaysInMonth(y, m)
    THEN MonthFrom(n, y, m + 1) ELSE m

\* date.fromordinal(n) as <<year, month, day>>.
FromOrdinal(n) ==
    With(YearFrom(n, ((n - 1) \div 366) + 1), LAMBDA y :
    With(n - DaysBeforeYear(y), LAMBDA r :
    With(MonthFrom(r, y, 1), LAMBDA m :
        <<y, m, r - DaysBeforeMonth(y, m)>>)))

\* strftime("%Y-%m-%d") of an ordinal day.
FormatDate(n) ==
    With(FromOrdinal(n), LAMBDA ymd :
        ZeroPad(ymd[1], 4) \o <<"-">> \o ZeroPad(ymd[2], 2) \o <<"-">>
            \o ZeroPad(ymd[3], 2))

\* datetime.strptime(s, "%Y-%m-%d") as an ordinal day; Invalid where it raises
\* (TypeError for None, ValueError for a text that is no calendar date).
\* %Y is four digits, %m and %d are one or two digits.
StrpDateParts(s, p) ==
    With(SubSeq(s, 1, 4), LAMBDA ys :
    With(SubSeq(s, 6, p - 1), LAMBDA ms :
    With(SubSeq(s, p + 1, Len(s)), LAMBDA ds :
        IF /\ s[5] = "-" /\ s[p] = "-"
           /\ AllDigits(ys) /\ AllDigits(ms) /\ AllDigits(ds)
           /\ Len(ms) \in {1, 2} /\ Len(ds) \in {1, 2}
        THEN With(IntOf(ys), LAMBDA y :
             With(IntOf(ms), LAMBDA m :
             With(IntOf(ds), LAMBDA d :
                 IF y >= 1 /\ m \in 1..12 /\ d >= 1 /\ d <= DaysInMonth(y, m)
                 THEN ToOrdinal(y, m, d)
                 ELSE Invalid)))
        ELSE Invalid)))

ParseDate(s) ==
    IF s = None \/ Len(s) < 8 \/ Len(s) > 10 THEN Invalid
    ELSE StrpDateParts(s, IF s[7] = "-" THEN 7 ELSE 8)

\* datetime.strptime(s, "%H:%M") as minutes after midnight; Invalid where it
\* raises.  %H and %M are one or two digits, hour 0..23, minute 0..59.
StrpTimeParts(s, p) ==
    With(SubSeq(s, 1, p - 1), LAMBDA hs :
    With(SubSeq(s, p + 1, Len(s)), LAMBDA ms :
        IF s[p] = ":" /\ AllDigits(hs) /\ AllDigits(ms) /\ Len(ms) \in {1, 2}
        THEN With(IntOf(hs), LAMBDA h :
             With(IntOf(ms), LAMBDA m :
                 IF h <= 23 /\ m <= 59 THEN h * 60 + m ELSE Invalid))
        ELSE Invalid))

ParseTime(s) ==
    IF s = None \/ Len(s) < 3 \/ Len(s) > 5 THEN Invalid
    ELSE StrpTimeParts(s, IF s[2] = ":" THEN 2 ELSE 3)

\* strftime("%H:%M") of minutes after midnight.
FormatTime(t) == ZeroPad(t \div 60, 2) \o <<":">> \o ZeroPad(t % 60, 2)

\* date_obj.strftime("%A").lower(): Monday is weekday 0 and ordinal 1.
WeekdayOf(w) ==
    CASE w = 0 -> "monday" [] w = 1 -> "tuesday" [] w = 2 -> "wednesday"
      [] w = 3 -> "thursday" [] w = 4 -> "friday" [] w = 5 -> "saturday"
      [] w = 6 -> "sunday"

WeekdayName(n) == WeekdayOf((n + 6) % 7)

\* datetime.now() as an ordinal day: the model starts on Monday 2024-01-01.
StartDay == ToOrdinal(2024, 1, 1)

\* The conversions on the days and the times of day the calls meet, worked
\* out once: the canonical text of each day from StartDay on and of each
\* minute of the day.  Any other text or number is converted afresh.
TableDays == 21
DayTexts == [n \in StartDay..(StartDay + TableDays) |-> FormatDate(n)]
DayTextSet == {DayTexts[n] : n \in DOMAIN DayTexts}
DayOfText == [s \in DayTextSet |-> ParseDate(s)]
MinuteTexts == [m \in 0..1439 |-> FormatTime(m)]
MinuteTextSet == {MinuteTexts[m] : m \in DOMAIN MinuteTexts}
MinuteOfText == [s \in MinuteTextSet |-> ParseTime(s)]

\* strftime("%Y-%m-%d")
StrfDate(day) ==
    With(day, LAMBDA n :
        IF n >= StartDay /\ n <= StartDay + TableDays
        THEN DayTexts[n] ELSE FormatDate(n))

\* strptime(text, "%Y-%m-%d") as an ordinal day, Invalid when it raises.
StrpDate(text) ==
    With(text, LAMBDA s : IF s \in DayTextSet THEN DayOfText[s] ELSE ParseDate(s))

\* strftime("%H:%M") of a minute of the day
StrfTime(minute) ==
    With(minute, LAMBDA m :
        IF m >= 0 /\ m <= 1439 THEN MinuteTexts[m] ELSE FormatTime(m))

\* strptime(text, "%H:%M") as a minute of the day, Invalid when it raises.
StrpTime(text) ==
    With(text, LAMBDA s :
        IF s \in MinuteTextSet THEN MinuteOfText[s] ELSE ParseTime(s))

-----------------------------------------------------------------------------
(* Seed data: _create_sample_doctors, _create_sample_schedule.             *)
(* A doctor keeps the fields booking reads: id, name, specialty, room.     *)

\* The canonical specialty codes, as texts.
therapy == <<"_t", "_h", "_e", "_r", "_a", "_p", "_y">>
cardiology == <<"_c", "_a", "_r", "_d", "_i", "_o", "_l", "_o", "_g", "_y">>
neurology == <<"_n", "_e", "_u", "_r", "_o", "_l", "_o", "_g", "_y">>
gynecology == <<"_g", "_y", "_n", "_e", "_c", "_o", "_l", "_o", "_g", "_y">>
urology == <<"_u", "_r", "_o", "_l", "_o", "_g", "_y">>
pediatrics == <<"_p", "_e", "_d", "_i", "_a", "_t", "_r", "_i", "_c", "_s">>

doctors == <<
    [id |-> "ivanova_ap", specialty |-> therapy, room |-> "101",
     name |-> <<"I", "v", "a", "n", "o", "v", "a", " ", "A", "n", "n", "a", " ",
                "P", "e", "t", "r", "o", "v", "n", "a">>],
    [id |-> "petrov_sm", specialty |-> therapy, room |-> "102",
     name |-> <<"P", "e", "t", "r", "o", "v", " ", "S", "e", "r", "g", "e", "j", " ",
                "M", "i", "h", "a", "j", "l", "o", "v", "i", "ch">>],
    [id |-> "sidorova_ev", specialty |-> cardiology, room |-> "201",
     name |-> <<"S", "i", "d", "o", "r", "o", "v", "a", " ", "E", "l", "e", "n", "a", " ",
                "V", "l", "a", "d", "i", "m", "i", "r", "o", "v", "n", "a">>],
    [id |-> "mikhailov_ik", specialty |-> cardiology, room |-> "202",
     name |-> <<"M", "i", "h", "a", "j", "l", "o", "v", " ", "I", "g", "o", "r", "q", " ",
                "K", "o", "n", "s", "t", "a", "n", "t", "i", "n", "o", "v", "i", "ch">>],
    [id |-> "kozlova_ma", specialty |-> neurology, room |-> "301",
     name |-> <<"K", "o", "z", "l", "o", "v", "a", " ", "M", "a", "r", "i", "ya", " ",
                "A", "l", "e", "k", "s", "a", "n", "d", "r", "o", "v", "n", "a">>],
    [id |-> "fedorov_ds", specialty |-> neurology, room |-> "302",
     name |-> <<"F", "e", "d", "o", "r", "o", "v", " ", "D", "m", "i", "t", "r", "i", "j", " ",
                "S", "e", "r", "g", "e", "e", "v", "i", "ch">>],
    [id |-> "romanova_li", specialty |-> gynecology, room |-> "401",
     name |-> <<"R", "o", "m", "a", "n", "o", "v", "a", " ", "L", "yu", "d", "m", "i", "l", "a", " ",
                "I", "v", "a", "n", "o", "v", "n", "a">>],
    [id |-> "nikolaeva_op", specialty |-> gynecology, room |-> "402",
     name |-> <<"N", "i", "k", "o", "l", "a", "e", "v", "a", " ", "O", "l", "q", "g", "a", " ",
                "P", "a", "v", "l", "o", "v", "n", "a">>]
>>

\* "HH:00" for a two-digit hour, as written in the seed schedule.
Hour(h) == ZeroPad(h, 2) \o <<":", "0", "0">>

Window(s, e) == [start |-> Hour(s), end |-> Hour(e)]

schedule == [
    ivanova_ap   |-> [monday |-> Window(9, 15), wednesday |-> Window(9, 15),
                      friday |-> Window(9, 15)],
    petrov_sm    |-> [tuesday |-> Window(10, 16), thursday |-> Window(10, 16),
                      saturday |-> Window(9, 13)],
    sidorova_ev  |-> [monday |-> Window(14, 19), wednesday |-> Window(14, 19)],
    mikhailov_ik |-> [tuesday |-> Window(9, 14), thursday |-> Window(9, 14),
                      friday |-> Window(9, 14)],
    kozlova_ma   |-> [monday |-> Window(10, 16), tuesday |-> Window(10, 16),
                      thursday |-> Window(10, 16)],
    fedorov_ds   |-> [wednesday |-> Window(14, 20), friday |-> Window(14, 20)],
    romanova_li  |-> [tuesday |-> Window(9, 15), thursday |-> Window(9, 15),
                      saturday |-> Window(9, 15)],
    nikolaeva_op |-> [monday |-> Window(13, 19), wednesday |-> Window(13, 19),
                      friday |-> Window(13, 19)]
]

\* dict.get(key, default)
DictGet(d, k, default) ==
    With(d, LAMBDA x : IF k \in DOMAIN x THEN x[k] ELSE default)

-----------------------------------------------------------------------------
(* MedicalDBService: reads.                                                *)

\* The doctors of a specialty, in store order.
get_doctors_by_specialty(specialty) ==
    SelectSeq(doctors, LAMBDA doctor : doctor.specialty = specialty)

\* With a date: {"date", "schedule": the weekday's window or {}}; {} when the
\* date does not parse.  Without a date: the whole weekly template.
get_doctor_schedule(doctor_id, date) ==
    With(DictGet(schedule, doctor_id, EmptyDict), LAMBDA doctor_schedule :
        IF ~Falsy(date)
        THEN With(StrpDate(date), LAMBDA date_obj :
                 IF date_obj = Invalid
                 THEN EmptyDict  \* strptime raises, the except clause returns {}
                 ELSE [date |-> date,
                       schedule |-> DictGet(doctor_schedule,
                                            WeekdayName(date_obj), EmptyDict)])
        ELSE [doctor_id |-> doctor_id, schedule |-> doctor_schedule])

\* Faulty variants of the slot scan: one that finds no slot taken, one that
\* looks at the first appointment only.
SlotNeverTaken(apps, doctor_id, date, time) == FALSE

SlotTakenOnlyFirst(apps, doctor_id, date, time) ==
    /\ apps # <<>>
    /\ apps[1].doctor_id = doctor_id
    /\ apps[1].date = date
    /\ apps[1].time = time
    /\ apps[1].status # "cancelled"

\* The slot scan of check_appointment_availability: an appointment at exactly
\* (doctor_id, date, time) that is not cancelled.
SlotTaken(apps, doctor_id, date, time) ==
    \E i \in 1..Len(apps) :
        /\ apps[i].doctor_id = doctor_id
        /\ apps[i].date = date
        /\ apps[i].time = time
        /\ apps[i].status # "cancelled"

\* Faulty variant of the window test: the closing time left out.
InWorkingHoursBeforeEnd(start_obj, time_obj, end_obj) ==
    start_obj <= time_obj /\ time_obj < end_obj

\* start_obj <= time_obj <= end_obj
InWorkingHours(start_obj, time_obj, end_obj) ==
    start_obj <= time_obj /\ time_obj <= end_obj

\* Lines 438-455: the three times parsed, the window test, the slot scan.
CheckInWindow(apps, doctor_id, date, time, start_time, end_time) ==
    With(StrpTime(time), LAMBDA time_obj :
    With(StrpTime(start_time), LAMBDA start_obj :
    With(StrpTime(end_time), LAMBDA end_obj :
        IF time_obj = Invalid \/ start_obj = Invalid \/ end_obj = Invalid
        THEN FALSE  \* strptime raises, the except clause returns False
        ELSE IF ~InWorkingHours(start_obj, time_obj, end_obj) THEN FALSE
        ELSE ~SlotTaken(apps, doctor_id, date, time))))

check_appointment_availability(apps, doctor_id, date, time) ==
    With(get_doctor_schedule(doctor_id, date), LAMBDA schedule_info :
    With(DictGet(schedule_info, "schedule", EmptyDict), LAMBDA day_schedule :
        IF DOMAIN day_schedule = {} THEN FALSE
        ELSE
        With(DictGet(day_schedule, "start", None), LAMBDA start_time :
        With(DictGet(day_schedule, "end", None), LAMBDA end_time :
            IF Falsy(start_time) \/ Falsy(end_time) THEN FALSE
            ELSE CheckInWindow(apps, doctor_id, date, time,
                               start_time, end_time)))))

\* Faulty variant of the slot length: a whole hour.
SlotMinutesDoubled == 2 * 30

\* timedelta(minutes=30)
SlotMinutes == 30

\* The while loop of get_available_times: the times current_time,
\* current_time + 30 minutes, ... before end_obj that pass the check, in order.
AvailableFrom(apps, doctor_id, date, current_time, end_obj) ==
    SelectSeq([k \in 1..((end_obj - current_time + SlotMinutes - 1)
                            \div SlotMinutes) |->
                  StrfTime(current_time + (k - 1) * SlotMinutes)],
              LAMBDA time_str :
                  check_appointment_availability(apps, doctor_id, date,
                                                 time_str))

get_available_times(apps, doctor_id, date) ==
    With(get_doctor_schedule(doctor_id, date), LAMBDA schedule_info :
    With(DictGet(schedule_info, "schedule", EmptyDict), LAMBDA day_schedule :
        IF DOMAIN day_schedule = {} THEN <<>>
        ELSE
        With(DictGet(day_schedule, "start", None), LAMBDA start_time :
        With(DictGet(day_schedule, "end", None), LAMBDA end_time :
            IF Falsy(start_time) \/ Falsy(end_time) THEN <<>>
            ELSE
            With(StrpTime(start_time), LAMBDA start_obj :
            With(StrpTime(end_time), LAMBDA end_obj :
                IF start_obj = Invalid \/ end_obj = Invalid
                THEN <<>>  \* strptime raises, the except clause returns []
                ELSE AvailableFrom(apps, doctor_id, date,
                                   start_obj, end_obj)))))))

\* A lookup that finds no patient.
FindNoPatient(pats, phone) == <<>>

\* The first patient with this phone as <<patient>>, or <<>> for None.
find_patient_by_phone(pats, phone) ==
    IF \E i \in 1..Len(pats) : pats[i].phone = phone
    THEN <<pats[CHOOSE i \in 1..Len(pats) :
                   /\ pats[i].phone = phone
                   /\ \A j \in 1..(i - 1) : pats[j].phone # phone]>>
    ELSE <<>>

-----------------------------------------------------------------------------
(* MedicalDBService: writes.                                               *)

AptPrefix == <<"_a", "_p", "_t", "_">>
PatPrefix == <<"_p", "_a", "_t", "_">>

\* Faulty variant of the id: the number left unpadded.
AppointmentIdUnpadded(n) == AptPrefix \o StrOf(n)

\* f"apt_{n:06d}"
AppointmentId(n) == AptPrefix \o ZeroPad(n, 6)

\* The appointment dict create_appointment builds.
NewAppointment(appointment_id, appointment_data, t) ==
    [id |-> appointment_id,
     doctor_id |-> appointment_data.doctor_id,
     patient_name |-> appointment_data.patient_name,
     patient_phone |-> appointment_data.patient_phone,
     date |-> appointment_data.date,
     time |-> appointment_data.time,
     service_id |-> appointment_data.service_id,
     complaint |-> appointment_data.complaint,
     status |-> "scheduled",
     created_at |-> t]

\* self.data["appointments"].append(appointment)
AppendAppointment(apps, appointment_id, appointment_data, t) ==
    Append(apps, NewAppointment(appointment_id, appointment_data, t))

\* Faulty variant of create_appointment: the availability check left out.
CreateWithoutCheck(apps, appointment_data, t) ==
    With(AppointmentId(Len(apps) + 1), LAMBDA appointment_id :
        [apps |-> AppendAppointment(apps, appointment_id, appointment_data, t),
         saved |-> TRUE,
         result |-> [success |-> TRUE, appointment_id |-> appointment_id,
                     message |-> "created"]])

\* create_appointment: the new list and the returned dict.
create_appointment(apps, appointment_data, t) ==
    With(AppointmentId(Len(apps) + 1), LAMBDA appointment_id :
    With(check_appointment_availability(apps, appointment_data.doctor_id,
                                        appointment_data.date,
                                        appointment_data.time),
         LAMBDA is_available :
        IF ~is_available
        THEN [apps |-> apps, saved |-> FALSE,
              result |-> [success |-> FALSE, appointment_id |-> None,
                          message |-> "time_unavailable"]]
        ELSE [apps |-> AppendAppointment(apps, appointment_id,
                                         appointment_data, t),
              saved |-> TRUE,
              result |-> [success |-> TRUE, appointment_id |-> appointment_id,
                          message |-> "created"]]))

\* Faulty variant of the cancellation: the status left as it was.
CancelledKeepsStatus(appointment, t) ==
    [k \in DOMAIN appointment \cup {"cancelled_at"} |->
        IF k = "cancelled_at" THEN t ELSE appointment[k]]

\* appointment["status"] = "cancelled"; appointment["cancelled_at"] = now
Cancelled(appointment, t) ==
    [k \in DOMAIN appointment \cup {"cancelled_at"} |->
        IF k = "status" THEN "cancelled"
        ELSE IF k = "cancelled_at" THEN t
        ELSE appointment[k]]

\* A cancellation that deletes the appointment from the list.
CancelRemoves(apps, appointment_id, t) ==
    IF \E i \in 1..Len(apps) : apps[i].id = appointment_id
    THEN [apps |-> SelectSeq(apps, LAMBDA x : x.id # appointment_id),
          saved |-> TRUE,
          result |-> [success |-> TRUE, message |-> "cancelled"]]
    ELSE [apps |-> apps, saved |-> FALSE,
          result |-> [success |-> FALSE, message |-> "not_found"]]

\* A cancellation that does not call _save_data.
CancelUnsaved(apps, appointment_id, t) ==
    IF \E i \in 1..Len(apps) : apps[i].id = appointment_id
    THEN [apps |-> [apps EXCEPT
                      ![CHOOSE k \in 1..Len(apps) :
                          /\ apps[k].id = appointment_id
                          /\ \A j \in 1..(k - 1) : apps[j].id # appointment_id] =
                        Cancelled(@, t)],
          saved |-> FALSE,
          result |-> [success |-> TRUE, message |-> "cancelled"]]
    ELSE [apps |-> apps, saved |-> FALSE,
          result |-> [success |-> FALSE, message |-> "not_found"]]

\* cancel_appointment: the first appointment with this id is cancelled.
cancel_appointment(apps, appointment_id, t) ==
    IF \E i \in 1..Len(apps) : apps[i].id = appointment_id
    THEN LET i == CHOOSE k \in 1..Len(apps) :
                      /\ apps[k].id = appointment_id
                      /\ \A j \in 1..(k - 1) : apps[j].id # appointment_id
         IN  [apps |-> [apps EXCEPT ![i] = Cancelled(apps[i], t)],
              saved |-> TRUE,
              result |-> [success |-> TRUE, message |-> "cancelled"]]
    ELSE [apps |-> apps, saved |-> FALSE,
          result |-> [success |-> FALSE, message |-> "not_found"]]

\* add_patient: the new list and the returned id f"pat_{n:06d}".
add_patient(pats, patient_data, t) ==
    With(PatPrefix \o ZeroPad(Len(pats) + 1, 6), LAMBDA patient_id :
        [pats |-> Append(pats, [id |-> patient_id,
                                name |-> patient_data.name,
                                phone |-> patient_data.phone,
                                email |-> <<>>,
                                birth_date |-> <<>>,
                                created_at |-> t]),
         patient_id |-> patient_id])

\* json.dump(self.data): the stored document.
Document(apps, pats) == [appointments |-> apps, patients |-> pats]

-----------------------------------------------------------------------------
(* AppointmentService.                                                     *)

\* self.specialty_mapping, in insertion order.
specialty_mapping == <<
    << <<"t", "e", "r", "a", "p", "e", "v", "t">>, therapy >>,
    << <<"t", "e", "r", "a", "p", "i", "ya">>, therapy >>,
    << <<"t", "e", "r", "a", "p", "e", "v", "t", "a">>, therapy >>,
    << <<"k", "a", "r", "d", "i", "o", "l", "o", "g">>, cardiology >>,
    << <<"k", "a", "r", "d", "i", "o", "l", "o", "g", "i", "ya">>, cardiology >>,
    << <<"k", "a", "r", "d", "i", "o", "l", "o", "g", "a">>, cardiology >>,
    << <<"n", "e", "v", "r", "o", "l", "o", "g">>, neurology >>,
    << <<"n", "e", "v", "r", "o", "l", "o", "g", "i", "ya">>, neurology >>,
    << <<"n", "e", "v", "r", "o", "l", "o", "g", "a">>, neurology >>,
    << <<"g", "i", "n", "e", "k", "o", "l", "o", "g">>, gynecology >>,
    << <<"g", "i", "n", "e", "k", "o", "l", "o", "g", "i", "ya">>, gynecology >>,
    << <<"g", "i", "n", "e", "k", "o", "l", "o", "g", "a">>, gynecology >>,
    << <<"u", "r", "o", "l", "o", "g">>, urology >>,
    << <<"u", "r", "o", "l", "o", "g", "i", "ya">>, urology >>,
    << <<"u", "r", "o", "l", "o", "g", "a">>, urology >>,
    << <<"p", "e", "d", "i", "a", "t", "r">>, pediatrics >>,
    << <<"p", "e", "d", "i", "a", "t", "r", "i", "ya">>, pediatrics >>,
    << <<"p", "e", "d", "i", "a", "t", "r", "a">>, pediatrics >>
>>

\* As normalize_specialty, with therapy for a text that holds no key.
NormalizeOrTherapy(specialty_text) ==
    With(Lower(specialty_text), LAMBDA text_lower :
    With({i \in 1..Len(specialty_mapping) :
              Contains(text_lower, specialty_mapping[i][1])}, LAMBDA hits :
        IF hits = {} THEN therapy
        ELSE specialty_mapping[CHOOSE i \in hits : \A j \in hits : i <= j][2]))

\* The code of the first mapping key contained in the lowered text, or None.
normalize_specialty(specialty_text) ==
    With(Lower(specialty_text), LAMBDA text_lower :
    With({i \in 1..Len(specialty_mapping) :
              Contains(text_lower, specialty_mapping[i][1])}, LAMBDA hits :
        IF hits = {} THEN None
        ELSE specialty_mapping[CHOOSE i \in hits : \A j \in hits : i <= j][2]))

\* _find_next_available_date(doctor_id, max_days=14)
max_days == 14

Today(t) == StartDay + (t \div TicksPerDay)

\* The for loop of _find_next_available_date from day offset i.
RECURSIVE FindNextFrom(_, _, _, _)
FindNextFrom(apps, doctor_id, today, i) ==
    IF i >= max_days THEN StrfDate(today + 1)
    ELSE IF get_available_times(apps, doctor_id, StrfDate(today + i)) # <<>>
    THEN StrfDate(today + i)
    ELSE FindNextFrom(apps, doctor_id, today, i + 1)

find_next_available_date(apps, doctor_id, today) ==
    FindNextFrom(apps, doctor_id, today, 0)

\* available_times, not cut to three.
FirstThreeUncut(times) == times

\* available_times[:3]
FirstThree(times) == SubSeq(times, 1, IF Len(times) < 3 THEN Len(times) ELSE 3)

\* A failure dict of book_appointment before anything is written.
BookFail(message, suggested) ==
    [ok |-> FALSE, message |-> message, suggested |-> suggested,
     specialty |-> None, doctor_id |-> "", date |-> None, time |-> None]

\* A doctor loop that takes the first doctor whatever the name asked for.
SelectFirstDoctor(specialty_doctors, doctor_name) == <<specialty_doctors[1]>>

\* The doctor loop of book_appointment: the first doctor whose lowered name
\* contains the lowered doctor_name, as <<doctor>>, or <<>>.
SelectDoctor(specialty_doctors, doctor_name) ==
    With(Lower(doctor_name), LAMBDA name_lower :
    With({i \in 1..Len(specialty_doctors) :
              Contains(Lower(specialty_doctors[i].name), name_lower)},
         LAMBDA hits :
        IF hits = {} THEN <<>>
        ELSE <<specialty_doctors[CHOOSE i \in hits : \A j \in hits : i <= j]>>))

\* Lines 332-362: the availability check on the chosen slot, then the patient
\* fields.
BookCheck(apps, a, specialty, doctor_id, date, time) ==
    IF ~check_appointment_availability(apps, doctor_id, date, time)
    THEN With(get_available_times(apps, doctor_id, date), LAMBDA available_times :
             IF available_times # <<>>
             THEN BookFail("time_taken", FirstThree(available_times))
             ELSE BookFail("no_free_time", <<>>))
    ELSE IF Falsy(a.patient_name) THEN BookFail("need_name", <<>>)
    ELSE IF Falsy(a.patient_phone) THEN BookFail("need_phone", <<>>)
    ELSE [ok |-> TRUE, message |-> "resolved", suggested |-> <<>>,
          specialty |-> specialty, doctor_id |-> doctor_id,
          date |-> date, time |-> time]

\* Lines 320-330: the time given, or the first free time of the date.
BookTime(apps, a, specialty, doctor_id, date) ==
    IF Falsy(a.time)
    THEN With(get_available_times(apps, doctor_id, date), LAMBDA available_times :
             IF available_times = <<>>
             THEN BookFail("no_free_time_on_date", <<>>)
             ELSE BookCheck(apps, a, specialty, doctor_id, date,
                            available_times[1]))
    ELSE BookCheck(apps, a, specialty, doctor_id, date, a.time)

\* Lines 315-318: the date given, or the next date with a free time.
BookDate(apps, today, a, specialty, doctor_id) ==
    IF Falsy(a.date)
    THEN With(find_next_available_date(apps, doctor_id, today), LAMBDA date :
             BookTime(apps, a, specialty, doctor_id, date))
    ELSE BookTime(apps, a, specialty, doctor_id, a.date)

\* Lines 285-313: the doctors of the specialty, the one named or the first.
BookDoctor(apps, today, a, specialty) ==
    With(get_doctors_by_specialty(specialty), LAMBDA specialty_doctors :
        IF specialty_doctors = <<>> THEN BookFail("no_doctors", <<>>)
        ELSE
        With(IF ~Falsy(a.doctor_name)
             THEN SelectDoctor(specialty_doctors, a.doctor_name)
             ELSE <<specialty_doctors[1]>>, LAMBDA selected :
            IF selected = <<>> THEN BookFail("doctor_not_found", <<>>)
            ELSE BookDate(apps, today, a, specialty, selected[1].id)))

\* book_appointment up to the patient lookup (lines 271-362): the outcome of
\* specialty, doctor, date and time resolution and of the availability check.
BookResolve(apps, today, a) ==
    IF Falsy(a.doctor_specialty) THEN BookFail("no_specialty", <<>>)
    ELSE With(normalize_specialty(a.doctor_specialty), LAMBDA specialty :
             IF specialty = None THEN BookFail("unknown_specialty", <<>>)
             ELSE BookDoctor(apps, today, a, specialty))

ConsultSuffix == <<"_", "_c", "_o", "_n", "_s", "_u", "_l", "_t">>

\* appointment_data of book_appointment (lines 376-384).
AppointmentData(r, a) ==
    [doctor_id |-> r.doctor_id,
     patient_name |-> a.patient_name,
     patient_phone |-> a.patient_phone,
     date |-> r.date,
     time |-> r.time,
     complaint |-> IF Falsy(a.patient_complaint) THEN <<>> ELSE a.patient_complaint,
     service_id |-> r.specialty \o ConsultSuffix]

\* Lines 364-373: look the patient up by phone, add one when there is none.
EnsurePatient(pats, a, t) ==
    IF find_patient_by_phone(pats, a.patient_phone) = <<>>
    THEN add_patient(pats, [name |-> a.patient_name, phone |-> a.patient_phone], t).pats
    ELSE pats

\* Lines 364-403 once the slot is resolved: the patient, then create_appointment.
BookCommit(apps, pats, t, a, r) ==
    With(EnsurePatient(pats, a, t), LAMBDA pats1 :
    With(create_appointment(apps, AppointmentData(r, a), t), LAMBDA c :
        [apps |-> c.apps, pats |-> pats1,
         saved |-> (c.saved \/ pats1 # pats), resolved |-> r,
         result |-> IF c.result.success
                    THEN [success |-> TRUE,
                          appointment_id |-> c.result.appointment_id,
                          message |-> "booked"]
                    ELSE c.result]))

\* A faulty variant of book_appointment: the patient is looked up and added
\* before the slot is resolved.
BookPatientFirst(apps, pats, t, a) ==
    With(BookResolve(apps, Today(t), a), LAMBDA r :
        IF ~r.ok
        THEN [apps |-> apps,
              pats |-> IF Falsy(a.patient_phone) THEN pats
                       ELSE EnsurePatient(pats, a, t),
              saved |-> ~Falsy(a.patient_phone), resolved |-> r,
              result |-> [success |-> FALSE, appointment_id |-> None,
                          message |-> r.message]]
        ELSE BookCommit(apps, pats, t, a, r))

\* book_appointment as one call: the new lists and the returned dict.
book_appointment(apps, pats, t, a) ==
    With(BookResolve(apps, Today(t), a), LAMBDA r :
        IF ~r.ok
        THEN [apps |-> apps, pats |-> pats, saved |-> FALSE, resolved |-> r,
              result |-> [success |-> FALSE, appointment_id |-> None,
                          message |-> r.message]]
        ELSE BookCommit(apps, pats, t, a, r))

-----------------------------------------------------------------------------
(* AppointmentService: the date a text speaks of.                          *)

Kw_Segodnya == <<"s", "e", "g", "o", "d", "n", "ya">>
Kw_Zavtra == <<"z", "a", "v", "t", "r", "a">>
Kw_Poslezavtra == <<"p", "o", "s", "l", "e", "z", "a", "v", "t", "r", "a">>

\* self.weekday_mapping, in the order of the dict.
weekday_mapping == <<
    << <<"p", "o", "n", "e", "d", "e", "l", "q", "n", "i", "k">>, "monday" >>,
    << <<"v", "t", "o", "r", "n", "i", "k">>, "tuesday" >>,
    << <<"s", "r", "e", "d", "a">>, "wednesday" >>,
    << <<"ch", "e", "t", "v", "e", "r", "g">>, "thursday" >>,
    << <<"p", "ya", "t", "n", "i", "c", "a">>, "friday" >>,
    << <<"s", "u", "b", "b", "o", "t", "a">>, "saturday" >>,
    << <<"v", "o", "s", "k", "r", "e", "s", "e", "n", "q", "e">>, "sunday" >>,
    << <<"p", "n">>, "monday" >>,
    << <<"v", "t">>, "tuesday" >>,
    << <<"s", "r">>, "wednesday" >>,
    << <<"ch", "t">>, "thursday" >>,
    << <<"p", "t">>, "friday" >>,
    << <<"s", "b">>, "saturday" >>,
    << <<"v", "s">>, "sunday" >>
>>

weekdays ==
    <<"monday", "tuesday", "wednesday", "thursday", "friday", "saturday",
      "sunday">>

\* _get_next_weekday_date(weekday): the next day of that name after today.
get_next_weekday_date(weekday, today) ==
    With((CHOOSE k \in 1..7 : weekdays[k] = weekday) - 1, LAMBDA target_weekday :
    With((today + 6) % 7, LAMBDA current_weekday :
    With(target_weekday - current_weekday, LAMBDA days_ahead :
        StrfDate(today + (IF days_ahead <= 0 THEN days_ahead + 7
                          ELSE days_ahead)))))

\* Lines 83-88 of parse_date_from_text: the relative words, tried in the
\* order of the code, each by a substring test; <<>> when none is there.
RelativeDate(text_lower, today) ==
    IF Contains(text_lower, Kw_Segodnya) THEN <<StrfDate(today)>>
    ELSE IF Contains(text_lower, Kw_Zavtra) THEN <<StrfDate(today + 1)>>
    ELSE IF Contains(text_lower, Kw_Poslezavtra) THEN <<StrfDate(today + 2)>>
    ELSE <<>>

\* Lines 91-93: the first weekday_mapping key that occurs in the text.
WeekdayDate(text_lower, today) ==
    With({i \in 1..Len(weekday_mapping) :
              Contains(text_lower, weekday_mapping[i][1])}, LAMBDA hits :
        IF hits = {} THEN <<>>
        ELSE <<get_next_weekday_date(
                   weekday_mapping[CHOOSE i \in hits : \A j \in hits : i <= j][2],
                   today)>>)

\* self.month_mapping, in the order of the names in the third pattern.
month_mapping == <<
    <<"ya", "n", "v", "a", "r", "ya">>,
    <<"f", "e", "v", "r", "a", "l", "ya">>,
    <<"m", "a", "r", "t", "a">>,
    <<"a", "p", "r", "e", "l", "ya">>,
    <<"m", "a", "ya">>,
    <<"i", "yu", "n", "ya">>,
    <<"i", "yu", "l", "ya">>,
    <<"a", "v", "g", "u", "s", "t", "a">>,
    <<"s", "e", "n", "t", "ya", "b", "r", "ya">>,
    <<"o", "k", "t", "ya", "b", "r", "ya">>,
    <<"n", "o", "ya", "b", "r", "ya">>,
    <<"d", "e", "k", "a", "b", "r", "ya">>
>>

\* \d{n} at position i of s.
DigitsAt(s, i, n) ==
    i + n - 1 <= Len(s) /\ \A k \in i..(i + n - 1) : s[k] \in DigitChars

\* The character c at position i of s.
CharAt(s, i, c) == i >= 1 /\ i <= Len(s) /\ s[i] = c

\* The text at position i up to length n.
Group(s, i, n) == SubSeq(s, i, i + n - 1)

\* The widths (\d{1,2}) takes at position i when what follows it must hold:
\* two digits before one.
WidthsAt(s, i) == {w \in {1, 2} : DigitsAt(s, i, w)}

\* (\d{1,2})\.(\d{1,2})\.(\d{4}) at position i: the three groups, or <<>>.
MatchDayMonthYearAt(s, i) ==
    With({w \in WidthsAt(s, i) \X {1, 2} :
              /\ CharAt(s, i + w[1], ".")
              /\ DigitsAt(s, i + w[1] + 1, w[2])
              /\ CharAt(s, i + w[1] + 1 + w[2], ".")
              /\ DigitsAt(s, i + w[1] + w[2] + 2, 4)}, LAMBDA fits :
        IF fits = {} THEN <<>>
        ELSE With(CHOOSE w \in fits :
                      \A v \in fits : v[1] < w[1] \/ (v[1] = w[1] /\ v[2] <= w[2]),
                  LAMBDA w :
                 <<Group(s, i, w[1]), Group(s, i + w[1] + 1, w[2]),
                   Group(s, i + w[1] + w[2] + 2, 4)>>))

\* (\d{1,2})\.(\d{1,2}) at position i: the two groups, or <<>>.
MatchDayMonthAt(s, i) ==
    With({w \in WidthsAt(s, i) \X {1, 2} :
              /\ CharAt(s, i + w[1], ".")
              /\ DigitsAt(s, i + w[1] + 1, w[2])}, LAMBDA fits :
        IF fits = {} THEN <<>>
        ELSE With(CHOOSE w \in fits :
                      \A v \in fits : v[1] < w[1] \/ (v[1] = w[1] /\ v[2] <= w[2]),
                  LAMBDA w :
                 <<Group(s, i, w[1]), Group(s, i + w[1] + 1, w[2])>>))

\* The month names that start at position j, by their numbers.
MonthsAt(s, j) ==
    {m \in 1..12 : /\ j + Len(month_mapping[m]) - 1 <= Len(s)
                    /\ Group(s, j, Len(month_mapping[m])) = month_mapping[m]}

\* (\d{1,2})\s+(month name) at position i: the day group and the number of
\* the month named, or <<>>.
MatchDayNameAt(s, i) ==
    With({w \in WidthsAt(s, i) \X (1..Len(s)) :
              /\ \A k \in (i + w[1])..(i + w[1] + w[2] - 1) : CharAt(s, k, " ")
              /\ MonthsAt(s, i + w[1] + w[2]) # {}}, LAMBDA fits :
        IF fits = {} THEN <<>>
        ELSE With(CHOOSE w \in fits : TRUE, LAMBDA w :
                 <<Group(s, i, w[1]),
                   CHOOSE m \in MonthsAt(s, i + w[1] + w[2]) :
                       \A n \in MonthsAt(s, i + w[1] + w[2]) : m <= n>>))

\* re.search: the match at the leftmost position that has one.
SearchDayMonthYear(s) ==
    With({i \in 1..Len(s) : MatchDayMonthYearAt(s, i) # <<>>}, LAMBDA hits :
        IF hits = {} THEN <<>>
        ELSE MatchDayMonthYearAt(s, CHOOSE i \in hits : \A j \in hits : i <= j))

SearchDayMonth(s) ==
    With({i \in 1..Len(s) : MatchDayMonthAt(s, i) # <<>>}, LAMBDA hits :
        IF hits = {} THEN <<>>
        ELSE MatchDayMonthAt(s, CHOOSE i \in hits : \A j \in hits : i <= j))

SearchDayName(s) ==
    With({i \in 1..Len(s) : MatchDayNameAt(s, i) # <<>>}, LAMBDA hits :
        IF hits = {} THEN <<>>
        ELSE MatchDayNameAt(s, CHOOSE i \in hits : \A j \in hits : i <= j))

\* datetime(year, month, day) as an ordinal day; Invalid where it raises.
MakeDate(year, month, day) ==
    IF /\ year >= 1 /\ year <= 9999 /\ month >= 1 /\ month <= 12
       /\ day >= 1 /\ day <= DaysInMonth(year, month)
    THEN ToOrdinal(year, month, day)
    ELSE Invalid

\* date_obj < datetime.now(): midnight of the day against the clock.
BeforeNow(day, t) ==
    day < Today(t) \/ (day = Today(t) /\ t % TicksPerDay # 0)

\* _parse_date_match without a year in the text: this year, or the next when
\* the day is past; today where datetime raises.
ThisOrNextYear(month, day, t) ==
    With(FromOrdinal(Today(t))[1], LAMBDA year :
    With(MakeDate(year, month, day), LAMBDA date_obj :
        IF date_obj = Invalid THEN StrfDate(Today(t))
        ELSE IF BeforeNow(date_obj, t)
        THEN With(MakeDate(year + 1, month, day), LAMBDA next_year :
                 IF next_year = Invalid THEN StrfDate(Today(t))
                 ELSE StrfDate(next_year))
        ELSE StrfDate(date_obj)))

\* _parse_date_match for DD.MM.YYYY; today where datetime raises.
GivenYear(groups, t) ==
    With(MakeDate(IntOf(groups[3]), IntOf(groups[2]), IntOf(groups[1])),
         LAMBDA date_obj :
        IF date_obj = Invalid THEN StrfDate(Today(t)) ELSE StrfDate(date_obj))

\* Lines 95-107: the patterns in the order of date_patterns, the first that
\* matches decides; None when none does.
PatternDate(text_lower, t) ==
    With(SearchDayMonthYear(text_lower), LAMBDA full :
        IF full # <<>> THEN GivenYear(full, t)
        ELSE With(SearchDayMonth(text_lower), LAMBDA short :
            IF short # <<>>
            THEN ThisOrNextYear(IntOf(short[2]), IntOf(short[1]), t)
            ELSE With(SearchDayName(text_lower), LAMBDA named :
                IF named # <<>>
                THEN ThisOrNextYear(named[2], IntOf(named[1]), t)
                ELSE None)))

\* parse_date_from_text(text) at clock t: a date text or None.
parse_date_from_text(text, t) ==
    IF text = None THEN None
    ELSE With(Lower(text), LAMBDA text_lower :
         With(RelativeDate(text_lower, Today(t)), LAMBDA relative :
             IF relative # <<>> THEN relative[1]
             ELSE With(WeekdayDate(text_lower, Today(t)), LAMBDA named_day :
                 IF named_day # <<>> THEN named_day[1]
                 ELSE PatternDate(text_lower, t))))

-----------------------------------------------------------------------------
(* AppointmentService: the extraction of a time of day from a text.        *)

\* The words of the last three of time_patterns: утра, дня, вечера.
time_words ==
    << <<"u", "t", "r", "a">>, <<"d", "n", "ya">>,
       <<"v", "e", "ch", "e", "r", "a">> >>

\* \s* at position j: how many spaces it takes.
Spaces(s, j) ==
    CHOOSE n \in 0..Len(s) :
        /\ \A k \in j..(j + n - 1) : CharAt(s, k, " ")
        /\ ~CharAt(s, j + n, " ")

\* The word at position j of s.
HasAt(s, j, word) ==
    j + Len(word) - 1 <= Len(s) /\ Group(s, j, Len(word)) = word

\* Pattern number pattern of time_patterns at position i: its groups, or
\* <<>>.  1: (\d{1,2}):(\d{2})  2: (\d{1,2})\.(\d{2})  3: в\s*(\d{1,2})
\* 4 to 6: (\d{1,2})\s*word.  \d{1,2} takes two digits before one.
MatchTimeAt(s, i, pattern) ==
    IF pattern \in {1, 2}
    THEN With({w \in WidthsAt(s, i) :
                  /\ CharAt(s, i + w, IF pattern = 1 THEN ":" ELSE ".")
                  /\ DigitsAt(s, i + w + 1, 2)}, LAMBDA fits :
             IF fits = {} THEN <<>>
             ELSE With(CHOOSE w \in fits : \A v \in fits : v <= w, LAMBDA w :
                      <<Group(s, i, w), Group(s, i + w + 1, 2)>>))
    ELSE IF pattern = 3
    THEN IF ~CharAt(s, i, "v") THEN <<>>
         ELSE With(i + 1 + Spaces(s, i + 1), LAMBDA j :
                  IF DigitsAt(s, j, 2) THEN <<Group(s, j, 2)>>
                  ELSE IF DigitsAt(s, j, 1) THEN <<Group(s, j, 1)>>
                  ELSE <<>>)
    ELSE With({w \in WidthsAt(s, i) :
                  HasAt(s, i + w + Spaces(s, i + w), time_words[pattern - 3])},
              LAMBDA fits :
             IF fits = {} THEN <<>>
             ELSE With(CHOOSE w \in fits : \A v \in fits : v <= w, LAMBDA w :
                      <<Group(s, i, w)>>))

\* re.search(pattern, text_lower): the match at the leftmost position.
SearchTime(s, pattern) ==
    With({i \in 1..Len(s) : MatchTimeAt(s, i, pattern) # <<>>}, LAMBDA hits :
        IF hits = {} THEN <<>>
        ELSE MatchTimeAt(s, CHOOSE i \in hits : \A j \in hits : i <= j, pattern))

\* f"{hour:02d}:{minute:02d}"
TimeOf(hour, minute) == ZeroPad(hour, 2) \o <<":">> \o ZeroPad(minute, 2)

\* if hour == 12: hour = 0
MorningHour(hour) == IF hour = 12 THEN 0 ELSE hour

\* A faulty variant of the afternoon hour: the hour as it is written.
AfternoonHourAsWritten(hour) == hour

\* if hour < 12: hour += 12
AfternoonHour(hour) == IF hour < 12 THEN hour + 12 ELSE hour

\* _parse_time_match for the groups of a match of pattern number pattern.
ParseTimeMatch(groups, pattern) ==
    IF pattern \in {1, 2} THEN TimeOf(IntOf(groups[1]), IntOf(groups[2]))
    ELSE IF pattern = 3 THEN TimeOf(IntOf(groups[1]), 0)
    ELSE IF pattern = 4 THEN TimeOf(MorningHour(IntOf(groups[1])), 0)
    ELSE TimeOf(AfternoonHour(IntOf(groups[1])), 0)

\* parse_time_from_text(text): the first of time_patterns that matches
\* decides; None when none does or when text is None.
parse_time_from_text(text) ==
    IF text = None THEN None
    ELSE With(Lower(text), LAMBDA text_lower :
         With({p \in 1..6 : SearchTime(text_lower, p) # <<>>}, LAMBDA hits :
             IF hits = {} THEN None
             ELSE With(CHOOSE p \in hits : \A q \in hits : p <= q, LAMBDA p :
                      ParseTimeMatch(SearchTime(text_lower, p), p))))

-----------------------------------------------------------------------------
(* MedicalAgent: the booking context of a conversation and one appointment *)
(* turn, handle_appointment_booking.  A dict is a function on the keys it  *)
(* holds.                                                                  *)

\* self.appointment_context.update(appointment_info)
Update(context, info) ==
    [k \in DOMAIN context \cup DOMAIN info |->
        IF k \in DOMAIN info THEN info[k] ELSE context[k]]

required_fields == <<"specialty", "patient_name", "patient_phone">>

\* A required field that is not a key of the context, whatever its value.
IsAbsent(context, field) == field \notin DOMAIN context

\* A required field that is not a key of the context or whose value is falsy.
IsMissing(context, field) ==
    field \notin DOMAIN context \/ Falsy(context[field])

\* _get_missing_appointment_info: the required fields missing, in order.
get_missing_appointment_info(context) ==
    SelectSeq(required_fields, LAMBDA field : IsMissing(context, field))

\* _ask_for_missing_info: the fields the reply asks about, the only one
\* missing or missing_info[:2].
ask_for_missing_info(missing_info) ==
    IF Len(missing_info) = 1 THEN missing_info
    ELSE SubSeq(missing_info, 1, 2)

\* The arguments handle_appointment_booking passes to book_appointment
\* (lines 172-180), each read with appointment_context.get.
ContextArgs(context) ==
    [doctor_specialty |-> DictGet(context, "specialty", None),
     doctor_name |-> DictGet(context, "doctor_name", None),
     date |-> DictGet(context, "date", None),
     time |-> DictGet(context, "time", None),
     patient_name |-> DictGet(context, "patient_name", None),
     patient_phone |-> DictGet(context, "patient_phone", None),
     patient_complaint |-> DictGet(context, "complaint", None)]

\* The context left as merged whatever the result.
ContextKept(context, success) == context

\* The context cleared whatever the result.
ContextCleared(context, success) == EmptyDict

\* Lines 182-189: the context is cleared when the booking succeeded and left
\* as merged when it failed.
ContextAfterBooking(context, success) ==
    IF success THEN EmptyDict ELSE context

-----------------------------------------------------------------------------
(* The inputs the calls are tried with.                                    *)

D_Mon == <<"2", "0", "2", "4", "-", "0", "1", "-", "0", "1">>   \* a Monday, the first day
D_Tue == <<"2", "0", "2", "4", "-", "0", "1", "-", "0", "2">>
D_Bad == <<"2", "0", "2", "4", "-", "1", "3", "-", "0", "1">>   \* month 13

T_0900 == <<"0", "9", ":", "0", "0">>
T_900 == <<"9", ":", "0", "0">>               \* the same time of day, unpadded
T_0915 == <<"0", "9", ":", "1", "5">>
T_0930 == <<"0", "9", ":", "3", "0">>
T_1500 == <<"1", "5", ":", "0", "0">>         \* closing time of ivanova_ap
T_1530 == <<"1", "5", ":", "3", "0">>
T_0830 == <<"0", "8", ":", "3", "0">>
T_Bad == <<"2", "5", ":", "0", "0">>          \* hour 25

Name_Ivan == <<"I", "v", "a", "n">>
Phone_1 == <<"+", "7", "1">>
Phone_2 == <<"+", "7", "2">>

Text_Terapevt == <<"T", "e", "r", "a", "p", "e", "v", "t">>
Text_Zubnoj == <<"z", "u", "b", "n", "o", "j">>
Text_Petrov == <<"P", "e", "t", "r", "o", "v">>
Text_Sidorova == <<"S", "i", "d", "o", "r", "o", "v", "a">>
Text_Sergej == <<"s", "e", "r", "g", "e", "j">>   \* the second therapist only

\* A book_appointment call with every argument left out.
NoArgs ==
    [doctor_specialty |-> None, doctor_name |-> None, date |-> None,
     time |-> None, patient_name |-> None, patient_phone |-> None,
     patient_complaint |-> None]

\* appointment_data of a direct create_appointment call.
CreateData(doctor_id, date, time) ==
    [doctor_id |-> doctor_id, date |-> date, time |-> time,
     patient_name |-> Name_Ivan, patient_phone |-> Phone_1,
     complaint |-> <<>>, service_id |-> therapy \o ConsultSuffix]

\* Arguments of a direct create_appointment call: times of ivanova_ap's Monday
\* (at the start, the same unpadded, off the half hour, at closing, after
\* closing, no time of day), a day she does not work, a text that is no date,
\* an unknown doctor.
CreateInputs ==
    {CreateData("ivanova_ap", D_Mon, t) :
        t \in {T_0900, T_900, T_0915, T_1500, T_1530, T_Bad}}
    \cup {CreateData("ivanova_ap", D_Tue, T_0900),
          CreateData("ivanova_ap", D_Bad, T_0900),
          CreateData("nobody", D_Mon, T_0900)}

\* Arguments of a book_appointment call.
BookArgs(doctor_specialty, doctor_name, date, time, patient_name, patient_phone) ==
    [doctor_specialty |-> doctor_specialty, doctor_name |-> doctor_name,
     date |-> date, time |-> time, patient_name |-> patient_name,
     patient_phone |-> patient_phone, patient_complaint |-> None]

\* The book_appointment calls tried: date and time left to the service, a slot
\* named in full, a time off the half hour, a doctor named with a date; then
\* one call for each way of failing before anything is written.
BookInputs ==
    {BookArgs(Text_Terapevt, None, None, None, Name_Ivan, Phone_1),
     BookArgs(Text_Terapevt, None, D_Mon, T_0900, Name_Ivan, Phone_2),
     BookArgs(Text_Terapevt, None, D_Mon, T_0915, Name_Ivan, Phone_1),
     BookArgs(Text_Terapevt, Text_Petrov, D_Tue, None, Name_Ivan, Phone_1),
     BookArgs(Text_Terapevt, None, D_Tue, None, Name_Ivan, Phone_1),
     BookArgs(None, None, None, None, Name_Ivan, Phone_1),
     BookArgs(Text_Zubnoj, None, None, None, Name_Ivan, Phone_1),
     BookArgs(Text_Terapevt, Text_Sidorova, None, None, Name_Ivan, Phone_1),
     BookArgs(Text_Terapevt, Text_Sergej, D_Tue, None, Name_Ivan, Phone_1),
     BookArgs(Text_Terapevt, None, D_Mon, T_0930, None, Phone_1),
     BookArgs(Text_Terapevt, None, D_Mon, T_0930, Name_Ivan, None)}

\* Ids a cancel_appointment call is tried with: every id in use and one more.
CancelIds == {AppointmentId(n) : n \in 1..(MaxAppointments + 1)}

Conversations == {1, 2}

\* The book_appointment calls two conversations make at the same time.
ConcInputs ==
    {BookArgs(Text_Terapevt, None, None, None, Name_Ivan, Phone_1),
     BookArgs(Text_Terapevt, None, D_Mon, T_0900, Name_Ivan, Phone_2)}

\* What _extract_appointment_info returns for a message: nothing, the
\* specialty as the code the fallback parser writes, as the patient says it,
\* one the clinic does not have, a name, an empty name, a phone, a slot, a
\* doctor the clinic does not have.
ExtractedInfos ==
    {EmptyDict,
     "specialty" :> therapy,
     "specialty" :> Text_Terapevt,
     "specialty" :> Text_Zubnoj,
     "patient_name" :> Name_Ivan,
     "patient_name" :> <<>>,
     "patient_phone" :> Phone_1,
     ("date" :> D_Mon) @@ ("time" :> T_0900),
     "doctor_name" :> Text_Sidorova}

\* The texts parse_date_from_text is tried with: each relative word alone
\* and inside a sentence, a weekday, a weekday's short name in a sentence
\* about the therapist, a day and month in digits, a day and a month name,
\* a day and a month name followed by another day and month in digits, a
\* month name, a date that is none, a text with no date.
DateTexts ==
    {Kw_Segodnya,
     Kw_Zavtra,
     Kw_Poslezavtra,
     <<"Z", "a", "v", "t", "r", "a", " ", "v", " ", "9">>,
     <<"n", "a", " ">> \o Kw_Poslezavtra \o <<" ", "u", "t", "r", "o", "m">>,
     <<"p", "ya", "t", "n", "i", "c", "a">>,
     <<"v", " ", "s", "b", " ", "k", " ",
       "t", "e", "r", "a", "p", "e", "v", "t", "u">>,
     <<"3", ".", "0", "1">>,
     <<"3", " ", "ya", "n", "v", "a", "r", "ya">>,
     <<"1", "0", " ", "m", "a", "ya", " ", "1", "2", ".", "0", "6">>,
     <<"3", "2", ".", "0", "1">>,
     <<"k", " ", "v", "r", "a", "ch", "u">>}

\* The texts parse_time_from_text is tried with: an hour of the morning, of
\* noon and of the afternoon in each of the six forms, then texts in which two
\* forms meet, forms with no space or two, capitals, and texts with no time.
TimeTexts ==
    UNION {{StrOf(h) \o <<":", "3", "0">>,
            ZeroPad(h, 2) \o <<".", "0", "5">>,
            <<"v", " ">> \o StrOf(h),
            StrOf(h) \o <<" ">> \o time_words[1],
            StrOf(h) \o <<" ">> \o time_words[2],
            StrOf(h) \o <<" ">> \o time_words[3]} : h \in {6, 12, 15}}
    \cup {<<"v", " ", "6", " ">> \o time_words[3],
          <<"9", " ">> \o time_words[1] \o <<" ", "1", "4", ":", "3", "0">>,
          <<"5", " ">> \o time_words[3] \o <<" ", "1", "4", ".", "3", "0">>,
          <<"3", " ">> \o time_words[2] \o <<" ", "5", " ">> \o time_words[1],
          <<"1", "0">> \o time_words[1],
          <<"7", " ", " ">> \o time_words[1],
          <<"Z", "a", "v", "t", "r", "a", " ", "V", " ", "9">>,
          <<"v", "9">>,
          Kw_Zavtra,
          <<"k", " ", "v", "r", "a", "ch", "u">>,
          <<"1", ":", "5">>,
          <<>>}

\* The read methods of the store.
ReadOps ==
    {"get_doctors_by_specialty", "get_doctor_schedule",
     "check_appointment_availability", "get_available_times",
     "find_patient_by_phone"}

-----------------------------------------------------------------------------
(* State.                                                                  *)

NoCall ==
    [op |-> "none", success |-> FALSE, appointment_id |-> None,
     doctor_id |-> "", date |-> None, time |-> None,
     message |-> "", suggested |-> <<>>, args |-> NoArgs]

NoLocals ==
    [a |-> NoArgs, r |-> BookFail("", <<>>), appointment_id |-> None,
     result |-> [success |-> FALSE, appointment_id |-> None, message |-> ""]]

\* No appointment turn yet.
NoTurn ==
    [merged |-> EmptyDict, missing |-> <<>>, asked |-> <<>>,
     called |-> FALSE, success |-> FALSE]

\* No text parsed yet.
NoParse == [op |-> "none", text |-> None, at |-> 0, result |-> None]

\* After __init__: no appointments, no patients, the document saved by
\* _ensure_sample_data.
Init ==
    /\ appointments = <<>>
    /\ patients = <<>>
    /\ persisted = Document(<<>>, <<>>)
    /\ now = 0
    /\ last = NoCall
    /\ pc = [p \in Conversations |-> "idle"]
    /\ loc = [p \in Conversations |-> NoLocals]
    /\ appointment_context = EmptyDict
    /\ turn = NoTurn
    /\ parsed = NoParse

-----------------------------------------------------------------------------
(* Calls executed one at a time.                                           *)

\* db_service.create_appointment(appointment_data)
CreateAppointmentCall ==
    \E data \in CreateInputs :
        \E c \in {create_appointment(appointments, data, now)} :
        /\ Len(c.apps) <= MaxAppointments
        /\ appointments' = c.apps
        /\ persisted' = IF c.saved THEN Document(c.apps, patients) ELSE persisted
        /\ last' = [op |-> "create_appointment", success |-> c.result.success,
                    appointment_id |-> c.result.appointment_id,
                    doctor_id |-> data.doctor_id, date |-> data.date,
                    time |-> data.time, message |-> c.result.message,
                    suggested |-> <<>>, args |-> NoArgs]
        /\ UNCHANGED <<patients, now, pc, loc, appointment_context, turn, parsed>>

\* appointment_service.book_appointment(...)
BookAppointmentCall ==
    \E a \in BookInputs :
        \E b \in {book_appointment(appointments, patients, now, a)} :
        /\ Len(b.apps) <= MaxAppointments
        /\ appointments' = b.apps
        /\ patients' = b.pats
        /\ persisted' = IF b.saved THEN Document(b.apps, b.pats) ELSE persisted
        /\ last' = [op |-> "book_appointment", success |-> b.result.success,
                    appointment_id |-> b.result.appointment_id,
                    doctor_id |-> b.resolved.doctor_id, date |-> b.resolved.date,
                    time |-> b.resolved.time, message |-> b.result.message,
                    suggested |-> b.resolved.suggested, args |-> a]
        /\ UNCHANGED <<now, pc, loc, appointment_context, turn, parsed>>

\* db_service.cancel_appointment(appointment_id)
CancelAppointmentCall ==
    \E appointment_id \in CancelIds :
        \E c \in {cancel_appointment(appointments, appointment_id, now)} :
        /\ appointments' = c.apps
        /\ persisted' = IF c.saved THEN Document(c.apps, patients) ELSE persisted
        /\ last' = [op |-> "cancel_appointment", success |-> c.result.success,
                    appointment_id |-> appointment_id,
                    doctor_id |-> "", date |-> None, time |-> None,
                    message |-> c.result.message, suggested |-> <<>>,
                    args |-> NoArgs]
        /\ UNCHANGED <<patients, now, pc, loc, appointment_context, turn, parsed>>

\* Whether a read method, asked about ivanova_ap's Monday 09:00 or about the
\* first phone, returns something truthy.
ReadResult(apps, pats, op) ==
    CASE op = "get_doctors_by_specialty" ->
             get_doctors_by_specialty(therapy) # <<>>
      [] op = "get_doctor_schedule" ->
             DOMAIN get_doctor_schedule("ivanova_ap", D_Mon) # {}
      [] op = "check_appointment_availability" ->
             check_appointment_availability(apps, "ivanova_ap", D_Mon, T_0900)
      [] op = "get_available_times" ->
             get_available_times(apps, "ivanova_ap", D_Mon) # <<>>
      [] op = "find_patient_by_phone" ->
             find_patient_by_phone(pats, Phone_1) # <<>>

\* A call of one of the read methods of the store: it returns a value and
\* assigns nothing.
ReadCall ==
    \E op \in ReadOps :
        /\ last' = [op |-> op, success |-> ReadResult(appointments, patients, op),
                    appointment_id |-> None, doctor_id |-> "ivanova_ap",
                    date |-> D_Mon, time |-> T_0900, message |-> "",
                    suggested |-> <<>>, args |-> NoArgs]
        /\ UNCHANGED <<appointments, patients, persisted, now, pc, loc,
                       appointment_context, turn, parsed>>

\* Time passes between calls.
Tick ==
    /\ now < MaxNow
    /\ now' = now + 1
    /\ UNCHANGED <<appointments, patients, persisted, last, pc, loc, appointment_context, turn, parsed>>

Next ==
    \/ CreateAppointmentCall
    \/ BookAppointmentCall
    \/ CancelAppointmentCall
    \/ ReadCall
    \/ Tick

Spec == Init /\ [][Next]_vars

-----------------------------------------------------------------------------
(* Two conversations inside book_appointment at the same time.  The store  *)
(* takes no lock, so a call is a chain of steps that another call's steps  *)
(* may come between: resolution of the slot with its availability check,   *)
(* the patient lookup, the check of create_appointment, its append.        *)

NoResult == [success |-> FALSE, appointment_id |-> None, message |-> ""]

Locals(a, r, appointment_id, result) ==
    [a |-> a, r |-> r, appointment_id |-> appointment_id, result |-> result]

\* book_appointment lines 271-362
BookBegin(p) ==
    /\ pc[p] = "idle"
    /\ \E a \in ConcInputs :
        \E r \in {BookResolve(appointments, Today(now), a)} :
            IF r.ok
            THEN /\ pc' = [pc EXCEPT ![p] = "patient"]
                 /\ loc' = [loc EXCEPT ![p] = Locals(a, r, None, NoResult)]
            ELSE /\ pc' = [pc EXCEPT ![p] = "done"]
                 /\ loc' = [loc EXCEPT ![p] =
                              Locals(a, r, None,
                                     [success |-> FALSE, appointment_id |-> None,
                                      message |-> r.message])]
    /\ UNCHANGED <<appointments, patients, persisted, now, last, appointment_context, turn, parsed>>

\* book_appointment lines 364-373
BookPatient(p) ==
    /\ pc[p] = "patient"
    /\ \E pats1 \in {EnsurePatient(patients, loc[p].a, now)} :
        /\ patients' = pats1
        /\ persisted' = IF pats1 # patients
                        THEN Document(appointments, pats1) ELSE persisted
    /\ pc' = [pc EXCEPT ![p] = "create"]
    /\ UNCHANGED <<appointments, now, last, loc, appointment_context, turn, parsed>>

\* create_appointment lines 475-488: the id, then the availability check
CreateCheck(p) ==
    /\ pc[p] = "create"
    /\ \E is_available \in {check_appointment_availability(
                                appointments, loc[p].r.doctor_id,
                                loc[p].r.date, loc[p].r.time)} :
        IF is_available
        THEN /\ pc' = [pc EXCEPT ![p] = "append"]
             /\ loc' = [loc EXCEPT ![p].appointment_id =
                            AppointmentId(Len(appointments) + 1)]
        ELSE /\ pc' = [pc EXCEPT ![p] = "done"]
             /\ loc' = [loc EXCEPT ![p].result =
                            [success |-> FALSE, appointment_id |-> None,
                             message |-> "time_unavailable"]]
    /\ UNCHANGED <<appointments, patients, persisted, now, last, appointment_context, turn, parsed>>

\* create_appointment lines 490-516: the append, the save, the result
CreateAppend(p) ==
    /\ pc[p] = "append"
    /\ Len(appointments) < MaxAppointments
    /\ \E apps1 \in {AppendAppointment(appointments, loc[p].appointment_id,
                                       AppointmentData(loc[p].r, loc[p].a), now)} :
        /\ appointments' = apps1
        /\ persisted' = Document(apps1, patients)
    /\ pc' = [pc EXCEPT ![p] = "done"]
    /\ loc' = [loc EXCEPT ![p].result =
                   [success |-> TRUE, appointment_id |-> loc[p].appointment_id,
                    message |-> "booked"]]
    /\ UNCHANGED <<patients, now, last, appointment_context, turn, parsed>>

\* The call returns; the conversation may call again.
BookReturn(p) ==
    /\ pc[p] = "done"
    /\ pc' = [pc EXCEPT ![p] = "idle"]
    /\ loc' = [loc EXCEPT ![p] = NoLocals]
    /\ UNCHANGED <<appointments, patients, persisted, now, last, appointment_context, turn, parsed>>

NextConc ==
    \E p \in Conversations :
        \/ BookBegin(p)
        \/ BookPatient(p)
        \/ CreateCheck(p)
        \/ CreateAppend(p)
        \/ BookReturn(p)

SpecConc == Init /\ [][NextConc]_vars

-----------------------------------------------------------------------------
(* One conversation with the agent: appointment turns, one at a time.      *)

\* handle_appointment_booking(user_message), lines 159-169: the merge, then
\* the question about what is missing; book_appointment is not called.
TurnAsks(merged, missing) ==
    /\ appointment_context' = merged
    /\ turn' = [merged |-> merged, missing |-> missing,
                asked |-> ask_for_missing_info(missing),
                called |-> FALSE, success |-> FALSE]
    /\ UNCHANGED <<appointments, patients, persisted, last>>

\* handle_appointment_booking(user_message), lines 171-187: the call of
\* book_appointment with the merged context and what follows its result.
TurnBooks(merged) ==
    \E a \in {ContextArgs(merged)} :
        \E b \in {book_appointment(appointments, patients, now, a)} :
        /\ Len(b.apps) <= MaxAppointments
        /\ appointments' = b.apps
        /\ patients' = b.pats
        /\ persisted' = IF b.saved THEN Document(b.apps, b.pats) ELSE persisted
        /\ last' = [op |-> "book_appointment", success |-> b.result.success,
                    appointment_id |-> b.result.appointment_id,
                    doctor_id |-> b.resolved.doctor_id, date |-> b.resolved.date,
                    time |-> b.resolved.time, message |-> b.result.message,
                    suggested |-> b.resolved.suggested, args |-> a]
        /\ appointment_context' = ContextAfterBooking(merged, b.result.success)
        /\ turn' = [merged |-> merged, missing |-> <<>>, asked |-> <<>>,
                    called |-> TRUE, success |-> b.result.success]

\* handle_appointment_booking(user_message)
AppointmentTurn ==
    \E appointment_info \in ExtractedInfos :
        \E merged \in {Update(appointment_context, appointment_info)} :
            \E missing_info \in {get_missing_appointment_info(merged)} :
                /\ IF missing_info # <<>>
                   THEN TurnAsks(merged, missing_info)
                   ELSE TurnBooks(merged)
                /\ UNCHANGED <<now, pc, loc, parsed>>

NextAgent ==
    \/ AppointmentTurn
    \/ Tick

SpecAgent == Init /\ [][NextAgent]_vars

-----------------------------------------------------------------------------
(* Texts given to parse_date_from_text over several days.                  *)

MaxParseNow == 15

\* appointment_service.parse_date_from_text(text)
ParseDateCall ==
    \E text \in DateTexts :
        /\ parsed' = [op |-> "parse_date_from_text", text |-> text, at |-> now,
                      result |-> parse_date_from_text(text, now)]
        /\ UNCHANGED <<appointments, patients, persisted, now, last, pc, loc,
                       appointment_context, turn>>

\* Time passes between the calls, over more than a week.
ParseTick ==
    /\ now < MaxParseNow
    /\ now' = now + 1
    /\ UNCHANGED <<appointments, patients, persisted, last, pc, loc,
                   appointment_context, turn, parsed>>

\* appointment_service.parse_time_from_text(text)
ParseTimeCall ==
    \E text \in TimeTexts :
        /\ parsed' = [op |-> "parse_time_from_text", text |-> text, at |-> now,
                      result |-> parse_time_from_text(text)]
        /\ UNCHANGED <<appointments, patients, persisted, now, last, pc, loc,
                       appointment_context, turn>>

NextParse ==
    \/ ParseDateCall
    \/ ParseTimeCall
    \/ ParseTick

SpecParse == Init /\ [][NextParse]_vars

-----------------------------------------------------------------------------
(* Calls on a store in which the first therapist has no free time left.    *)

MaxFullNow == 3

\* The slots ivanova_ap offers on day i after the first, with nothing booked.
FullDay(i) ==
    With(StrfDate(StartDay + i), LAMBDA date :
    With(get_available_times(<<>>, "ivanova_ap", date), LAMBDA times :
        [n \in 1..Len(times) |-> CreateData("ivanova_ap", date, times[n])]))

\* Those slots from day i through the last day a search of max_days days can
\* look at, in order.
RECURSIVE FullSlots(_)
FullSlots(i) ==
    IF i > (MaxFullNow \div TicksPerDay) + max_days THEN <<>>
    ELSE FullDay(i) \o FullSlots(i + 1)

\* The store after one create_appointment call for each of those slots.
FullAppointments ==
    With(FullSlots(0), LAMBDA slots :
        [n \in 1..Len(slots) |-> NewAppointment(AppointmentId(n), slots[n], 0)])

InitFull ==
    /\ appointments = FullAppointments
    /\ patients = <<>>
    /\ persisted = Document(FullAppointments, <<>>)
    /\ now = 0
    /\ last = NoCall
    /\ pc = [p \in Conversations |-> "idle"]
    /\ loc = [p \in Conversations |-> NoLocals]
    /\ appointment_context = EmptyDict
    /\ turn = NoTurn
    /\ parsed = NoParse

\* book_appointment calls that leave the date to the service: no time, a time
\* on the half hour, a time off it.
FullInputs ==
    {BookArgs(Text_Terapevt, None, None, time, Name_Ivan, Phone_1) :
        time \in {None, T_0900, T_0915}}

FullBookCall ==
    \E a \in FullInputs :
        \E b \in {book_appointment(appointments, patients, now, a)} :
        /\ Len(b.apps) <= Len(FullAppointments) + 1
        /\ appointments' = b.apps
        /\ patients' = b.pats
        /\ persisted' = IF b.saved THEN Document(b.apps, b.pats) ELSE persisted
        /\ last' = [op |-> "book_appointment", success |-> b.result.success,
                    appointment_id |-> b.result.appointment_id,
                    doctor_id |-> b.resolved.doctor_id, date |-> b.resolved.date,
                    time |-> b.resolved.time, message |-> b.result.message,
                    suggested |-> b.resolved.suggested, args |-> a]
        /\ UNCHANGED <<now, pc, loc, appointment_context, turn, parsed>>

FullTick ==
    /\ now < MaxFullNow
    /\ now' = now + 1
    /\ UNCHANGED <<appointments, patients, persisted, last, pc, loc,
                   appointment_context, turn, parsed>>

NextFull ==
    \/ FullBookCall
    \/ CancelAppointmentCall
    \/ FullTick

SpecFull == InitFull /\ [][NextFull]_vars

-----------------------------------------------------------------------------
(* Properties.                                                             *)

Active(i) == appointments[i].status # "cancelled"

SameSlot(x, y) ==
    x.doctor_id = y.doctor_id /\ x.date = y.date /\ x.time = y.time

\* Another appointment than i that is not cancelled and holds i's slot.
HeldByAnother(i) ==
    \E j \in 1..Len(appointments) :
        j # i /\ Active(j) /\ SameSlot(appointments[j], appointments[i])

\* The last call was a create_appointment or book_appointment refused on a
\* slot an appointment holds.
LastRefusedOnHeldSlot ==
    /\ last.op \in {"create_appointment", "book_appointment"}
    /\ ~last.success
    /\ \E i \in 1..Len(appointments) : Active(i) /\ SameSlot(appointments[i], last)

\* The slots the availability queries are put to.
QueryDoctors == {"ivanova_ap", "petrov_sm", "nobody"}
QueryDates == {D_Mon, D_Tue, D_Bad}
QueryTimes == {T_0830, T_0900, T_900, T_0915, T_1500, T_1530, T_Bad}

\* The doctor has a working window on the weekday of the date.
HasWindow(d, date) ==
    /\ d \in DOMAIN schedule
    /\ StrpDate(date) # Invalid
    /\ WeekdayName(StrpDate(date)) \in DOMAIN schedule[d]

WindowOf(d, date) == schedule[d][WeekdayName(StrpDate(date))]

(* C1: when book_appointment, create_appointment and cancel_appointment run
   one call at a time, no two appointments that are not cancelled share the
   same (doctor_id, date, time). *)
C1_NoDoubleBooking ==
    \A i, j \in 1..Len(appointments) :
        (i < j /\ Active(i) /\ Active(j))
            => ~SameSlot(appointments[i], appointments[j])

\* Two appointments of one doctor on one date stand, and the last call asked
\* for a slot one of them holds and was refused.
C1_Witness ==
    /\ Len(appointments) = 2
    /\ Active(1) /\ Active(2)
    /\ appointments[1].doctor_id = appointments[2].doctor_id
    /\ appointments[1].date = appointments[2].date
    /\ LastRefusedOnHeldSlot

(* C2: when two book_appointment calls for the same slot run at the same time,
   with the check inside create_appointment and its append as separate steps,
   at most one of them returns success and at most one appointment that is not
   cancelled holds the slot. *)
C2_OneWinnerPerSlot ==
    /\ \A p, q \in Conversations :
        (/\ p # q
         /\ pc[p] = "done" /\ pc[q] = "done"
         /\ loc[p].result.success /\ loc[q].result.success)
            => ~SameSlot(loc[p].r, loc[q].r)
    /\ \A i, j \in 1..Len(appointments) :
        (i # j /\ SameSlot(appointments[i], appointments[j]))
            => (~Active(i) \/ ~Active(j))

(* C3: once create_appointment has returned success for (doctor, date, time),
   check_appointment_availability is false for that tuple in every later state
   in which the appointment is not cancelled. *)
C3_HeldSlotUnavailable ==
    /\ \A i \in 1..Len(appointments) :
        Active(i) => ~check_appointment_availability(
                          appointments, appointments[i].doctor_id,
                          appointments[i].date, appointments[i].time)
    /\ (last.op = "create_appointment" /\ last.success)
        => \E i \in 1..Len(appointments) :
              /\ appointments[i].id = last.appointment_id
              /\ SameSlot(appointments[i], last)
              /\ Active(i)

\* An appointment made at time 0 still stands at time 1, and a
\* create_appointment for its slot has just been refused.
C3_Witness ==
    /\ now = 1
    /\ last.op = "create_appointment" /\ ~last.success
    /\ \E i \in 1..Len(appointments) :
        /\ Active(i)
        /\ appointments[i].created_at = 0
        /\ SameSlot(appointments[i], last)

(* C4: after cancel_appointment has succeeded for an appointment, the
   appointment is cancelled and, unless another appointment that is not
   cancelled holds its slot, check_appointment_availability is true for the
   slot again and create_appointment for it succeeds. *)
C4_CancelFreesSlot ==
    (last.op = "cancel_appointment" /\ last.success)
        => \A i \in 1..Len(appointments) :
              appointments[i].id = last.appointment_id
                  => /\ ~Active(i)
                     /\ ~HeldByAnother(i)
                          => /\ check_appointment_availability(
                                    appointments, appointments[i].doctor_id,
                                    appointments[i].date, appointments[i].time)
                             /\ create_appointment(
                                    appointments,
                                    CreateData(appointments[i].doctor_id,
                                               appointments[i].date,
                                               appointments[i].time),
                                    now).result.success

\* A slot whose first appointment was cancelled is held by a later one.
C4_Witness ==
    \E i, j \in 1..Len(appointments) :
        /\ i < j
        /\ ~Active(i) /\ Active(j)
        /\ SameSlot(appointments[i], appointments[j])

(* C5: a cancel_appointment call for an appointment that is cancelled already
   either reports that it found nothing or leaves the store as it was, and the
   appointment stays cancelled. *)
C5_SecondCancelInert ==
    [][(/\ last'.op = "cancel_appointment"
        /\ <<last, appointments>>' # <<last, appointments>>
        /\ \E i \in 1..Len(appointments) :
              appointments[i].id = last'.appointment_id /\ ~Active(i))
          => /\ ~last'.success \/ appointments' = appointments
             /\ \A i \in 1..Len(appointments) :
                   ~Active(i) => appointments'[i].status = "cancelled"]_vars

\* What C6 expects of one query, from the schedule and the appointments.
C6_Expected(d, date, time) ==
    /\ HasWindow(d, date)
    /\ StrpTime(time) # Invalid
    /\ StrpTime(WindowOf(d, date).start) <= StrpTime(time)
    /\ StrpTime(time) <= StrpTime(WindowOf(d, date).end)
    /\ ~\E i \in 1..Len(appointments) :
          /\ Active(i)
          /\ appointments[i].doctor_id = d
          /\ appointments[i].date = date
          /\ appointments[i].time = time

(* C6: check_appointment_availability is true exactly when the doctor has a
   working window on the weekday of the date, start <= time <= end with both
   ends included, and no appointment that is not cancelled stands at exactly
   (doctor_id, date, time). *)
C6_AvailabilityIff ==
    \A d \in QueryDoctors, date \in QueryDates, time \in QueryTimes :
        check_appointment_availability(appointments, d, date, time)
            = C6_Expected(d, date, time)

\* 09:00 is held, so it is refused; the closing time 15:00 is granted and
\* 15:30 is not.
C6_Witness ==
    /\ \E i \in 1..Len(appointments) :
        /\ Active(i)
        /\ appointments[i].doctor_id = "ivanova_ap"
        /\ appointments[i].date = D_Mon
        /\ appointments[i].time = T_0900
    /\ ~check_appointment_availability(appointments, "ivanova_ap", D_Mon, T_0900)
    /\ check_appointment_availability(appointments, "ivanova_ap", D_Mon, T_1500)
    /\ ~check_appointment_availability(appointments, "ivanova_ap", D_Mon, T_1530)

\* start, start + 30, ... below end, in minutes of the day.
C7_Grid(start, end) == {m \in start..(end - 1) : (m - start) % 30 = 0}

\* The times of the grid of the window that are available, as texts.
C7_Expected(d, date) ==
    {StrfTime(m) :
        m \in {g \in C7_Grid(StrpTime(WindowOf(d, date).start),
                             StrpTime(WindowOf(d, date).end)) :
                  check_appointment_availability(appointments, d, date,
                                                 StrfTime(g))}}

(* C7: get_available_times returns, in strictly ascending order, exactly the
   times start, start + 30 min, ... below end for which
   check_appointment_availability holds, and nothing when the doctor has no
   window that day. *)
C7_TimesAsListed ==
    \A d \in QueryDoctors, date \in QueryDates :
        \E times \in {get_available_times(appointments, d, date)} :
            IF HasWindow(d, date)
            THEN /\ \A k \in 1..(Len(times) - 1) :
                       StrpTime(times[k]) < StrpTime(times[k + 1])
                 /\ {times[k] : k \in 1..Len(times)} = C7_Expected(d, date)
            ELSE times = <<>>

\* 09:00 is held on a Monday of ivanova_ap: the list starts at 09:30 and has
\* the eleven other times of the window.
C7_Witness ==
    /\ \E i \in 1..Len(appointments) :
        /\ Active(i)
        /\ appointments[i].doctor_id = "ivanova_ap"
        /\ appointments[i].date = D_Mon
        /\ appointments[i].time = T_0900
    /\ Len(get_available_times(appointments, "ivanova_ap", D_Mon)) = 11
    /\ get_available_times(appointments, "ivanova_ap", D_Mon)[1] = T_0930

(* C8: every appointment in the store, also one made with the time given by
   the caller, has a time whose minutes are 00 or 30. *)
C8_HalfHourGrid ==
    \A i \in 1..Len(appointments) :
        /\ StrpTime(appointments[i].time) # Invalid
        /\ StrpTime(appointments[i].time) % 60 \in {0, 30}

(* C9: create_appointment checks availability itself: when the slot is not
   free it returns success = false and the list is as before; when the slot is
   free it appends exactly one appointment, with status 'scheduled'. *)
C9_CreateRechecks ==
    [][(/\ last'.op = "create_appointment"
        /\ <<last, appointments>>' # <<last, appointments>>)
          => IF check_appointment_availability(
                    appointments, last'.doctor_id, last'.date, last'.time)
             THEN /\ last'.success
                  /\ Len(appointments') = Len(appointments) + 1
                  /\ SubSeq(appointments', 1, Len(appointments)) = appointments
                  /\ appointments'[Len(appointments')].status = "scheduled"
                  /\ appointments'[Len(appointments')].id = last'.appointment_id
                  /\ SameSlot(appointments'[Len(appointments')], last')
             ELSE /\ ~last'.success
                  /\ appointments' = appointments]_vars

\* One appointment stands and a create_appointment for its slot has just
\* returned success = false.
C9_Witness ==
    /\ Len(appointments) = 1
    /\ Active(1)
    /\ last.op = "create_appointment"
    /\ ~last.success
    /\ SameSlot(appointments[1], last)

\* n in six decimal digits.
C10_SixDigits(n) ==
    <<DigitChar((n \div 100000) % 10), DigitChar((n \div 10000) % 10),
      DigitChar((n \div 1000) % 10), DigitChar((n \div 100) % 10),
      DigitChar((n \div 10) % 10), DigitChar(n % 10)>>

(* C10: the id of an appointment is 'apt_' followed by the number of
   appointments there were before it plus one, in six digits; ids are
   pairwise distinct and grow in the order of creation. *)
C10_IdsCountUp ==
    /\ \A i \in 1..Len(appointments) :
        appointments[i].id = <<"_a", "_p", "_t", "_">> \o C10_SixDigits(i)
    /\ \A i, j \in 1..Len(appointments) :
        i < j => /\ appointments[i].id # appointments[j].id
                 /\ IntOf(SubSeq(appointments[i].id, 5, 10))
                        < IntOf(SubSeq(appointments[j].id, 5, 10))
    /\ (last.op \in {"create_appointment", "book_appointment"} /\ last.success)
        => last.appointment_id = appointments[Len(appointments)].id

\* The second appointment, booked after the first was cancelled, is
\* apt_000002.
C10_Witness ==
    /\ Len(appointments) = 2
    /\ ~Active(1)
    /\ appointments[2].id = <<"_a", "_p", "_t", "_", "0", "0", "0", "0", "0", "2">>
    /\ last.op = "book_appointment"
    /\ last.success

-----------------------------------------------------------------------------
(* Properties of the agent's appointment turns.                            *)

\* The codes the store files doctors under.
CanonicalCodes ==
    {therapy, cardiology, neurology, gynecology, urology, pediatrics}

\* The store as it was before the last turn: a successful booking appended
\* one appointment, any other turn left the list as it is.
AppointmentsBeforeTurn ==
    IF turn.called /\ turn.success
    THEN SubSeq(appointments, 1, Len(appointments) - 1)
    ELSE appointments

\* The last turn called book_appointment with a context that holds a
\* canonical specialty code, a name and a phone and no doctor, date or time.
CodeContextBooked ==
    /\ turn.called
    /\ DictGet(turn.merged, "specialty", None) \in CanonicalCodes
    /\ Falsy(DictGet(turn.merged, "doctor_name", None))
    /\ Falsy(DictGet(turn.merged, "date", None))
    /\ Falsy(DictGet(turn.merged, "time", None))

\* C11: a turn whose context holds a canonical specialty code, a name and a
\* phone and no date or time books the first doctor of that specialty on the
\* earliest date with a free time, at the earliest free time of that date,
\* whenever that doctor has a free time within the scan window.
C11_CodeContextBooksEarliest ==
    CodeContextBooked =>
        \E doctor \in {get_doctors_by_specialty(turn.merged["specialty"])[1]} :
        \E date \in {find_next_available_date(AppointmentsBeforeTurn, doctor.id,
                                               Today(now))} :
        \E times \in {get_available_times(AppointmentsBeforeTurn, doctor.id, date)} :
            times # <<>> =>
                /\ turn.success
                /\ last.doctor_id = doctor.id
                /\ last.date = date
                /\ last.time = times[1]
                /\ SameSlot(appointments[Len(appointments)],
                            [doctor_id |-> doctor.id, date |-> date,
                             time |-> times[1]])

-----------------------------------------------------------------------------
(* Properties of book_appointment and of the store, calls one at a time.   *)

\* The last step was a call of book_appointment.
BookStep ==
    /\ last'.op = "book_appointment"
    /\ <<last, appointments, patients>>' # <<last, appointments, patients>>

\* The doctor a call with arguments a is about: the one named, or the first
\* of the specialty; <<>> when there is none.
DoctorAskedFor(a) ==
    IF Falsy(a.doctor_specialty) THEN <<>>
    ELSE With(normalize_specialty(a.doctor_specialty), LAMBDA specialty :
        IF specialty = None THEN <<>>
        ELSE With(get_doctors_by_specialty(specialty), LAMBDA found :
            IF found = <<>> THEN <<>>
            ELSE IF Falsy(a.doctor_name) THEN <<found[1]>>
            ELSE SelectDoctor(found, a.doctor_name)))

\* An appointment that is not cancelled holds the time of the date with the
\* doctor.
Held(doctor_id, date, time) ==
    \E i \in 1..Len(appointments) :
        /\ Active(i)
        /\ SameSlot(appointments[i],
                    [doctor_id |-> doctor_id, date |-> date, time |-> time])

(* C12: a book_appointment call that names a date and a time held by an
   appointment that is not cancelled returns success = false, writes nothing,
   and offers the first min(3, n) of the n times get_available_times returns
   for that doctor and date. *)
C12_HeldSlotOffersFirstThree ==
    [][(/\ BookStep
        /\ ~Falsy(last'.args.date)
        /\ ~Falsy(last'.args.time))
          => \E doctor \in {DoctorAskedFor(last'.args)} :
             (/\ doctor # <<>>
              /\ Held(doctor[1].id, last'.args.date, last'.args.time))
             => /\ ~last'.success
                /\ appointments' = appointments
                /\ patients' = patients
                /\ persisted' = persisted
                /\ \E times \in {get_available_times(
                                     appointments, doctor[1].id,
                                     last'.args.date)} :
                      /\ Len(last'.suggested) =
                            IF Len(times) < 3 THEN Len(times) ELSE 3
                      /\ \A k \in 1..Len(last'.suggested) :
                            last'.suggested[k] = times[k]
                      /\ times # <<>> => last'.message = "time_taken"]_vars

\* A book_appointment call for ivanova_ap's Monday 09:00, which an appointment
\* holds, has just been refused with three other times offered.
C12_Witness ==
    /\ last.op = "book_appointment"
    /\ ~last.success
    /\ last.args.date = D_Mon
    /\ last.args.time = T_0900
    /\ last.message = "time_taken"
    /\ Len(last.suggested) = 3
    /\ \E i \in 1..Len(appointments) :
          /\ Active(i)
          /\ SameSlot(appointments[i],
                      [doctor_id |-> "ivanova_ap", date |-> D_Mon, time |-> T_0900])

\* No key of specialty_mapping occurs in the text, letter case aside.
HoldsNoMappingKey(text) ==
    \A i \in 1..Len(specialty_mapping) :
        ~Contains(Lower(text), specialty_mapping[i][1])

(* C13: for a specialty text that holds no mapping key normalize_specialty
   finds nothing, and a book_appointment call with it returns success = false
   with the unknown-specialty message, selects no doctor and leaves the
   appointments and the patients as they were. *)
C13_UnknownSpecialtyRefused ==
    [][(/\ BookStep
        /\ ~Falsy(last'.args.doctor_specialty)
        /\ HoldsNoMappingKey(last'.args.doctor_specialty))
          => /\ normalize_specialty(last'.args.doctor_specialty) = None
             /\ ~last'.success
             /\ last'.message = "unknown_specialty"
             /\ last'.doctor_id = ""
             /\ last'.appointment_id = None
             /\ appointments' = appointments
             /\ patients' = patients
             /\ persisted' = persisted]_vars

\* With an appointment and a patient in the store, a book_appointment call
\* for the specialty text "zubnoj" has just been refused.
C13_Witness ==
    /\ last.op = "book_appointment"
    /\ last.args.doctor_specialty = Text_Zubnoj
    /\ last.message = "unknown_specialty"
    /\ Len(appointments) >= 1
    /\ Len(patients) >= 1

\* A patient with this phone is in the list.
HasPatient(pats, phone) == \E i \in 1..Len(pats) : pats[i].phone = phone

(* C17: there is at most one patient per phone number, and patient i has the
   id 'pat_' followed by i in six digits.  A book_appointment call for a phone
   that has a patient adds none; a call for a new phone adds at most one, and
   exactly one when it books, with that phone and the id of the new count. *)
C17_OnePatientPerPhone ==
    /\ [](/\ \A i, j \in 1..Len(patients) :
                patients[i].phone = patients[j].phone => i = j
           /\ \A n \in 1..Len(patients) :
                patients[n].id = PatPrefix \o C10_SixDigits(n))
    /\ [][BookStep
             => IF HasPatient(patients, last'.args.patient_phone)
                THEN patients' = patients
                ELSE /\ last'.success => Len(patients') = Len(patients) + 1
                     /\ \/ patients' = patients
                        \/ /\ Len(patients') = Len(patients) + 1
                           /\ SubSeq(patients', 1, Len(patients)) = patients
                           /\ patients'[Len(patients')].phone =
                                 last'.args.patient_phone
                           /\ patients'[Len(patients')].id =
                                 PatPrefix \o C10_SixDigits(Len(patients'))]_vars

\* Two appointments booked with the same phone, and one patient.
C17_Witness ==
    /\ Len(appointments) = 2
    /\ appointments[1].patient_phone = appointments[2].patient_phone
    /\ last.op = "book_appointment"
    /\ last.success
    /\ Len(patients) = 1

(* C18: no step removes an appointment: the list only grows, at its end;
   every appointment keeps its place, id, doctor, date and time; its status
   stays as it is or goes from 'scheduled' to 'cancelled', never back; an
   appointment starts as 'scheduled'. *)
C18_AppointmentsOnlyGrow ==
    [][/\ Len(appointments') >= Len(appointments)
       /\ \A i \in 1..Len(appointments) :
             /\ appointments'[i].id = appointments[i].id
             /\ appointments'[i].doctor_id = appointments[i].doctor_id
             /\ appointments'[i].date = appointments[i].date
             /\ appointments'[i].time = appointments[i].time
             /\ \/ appointments'[i].status = appointments[i].status
                \/ /\ appointments[i].status = "scheduled"
                   /\ appointments'[i].status = "cancelled"
       /\ \A i \in (Len(appointments) + 1)..Len(appointments') :
             appointments'[i].status = "scheduled"]_vars

\* The first appointment was cancelled, a second one was made after it, and
\* the cancelled one is still first in the list under its id.
C18_Witness ==
    /\ Len(appointments) = 2
    /\ appointments[1].status = "cancelled"
    /\ appointments[1].id = AppointmentId(1)
    /\ appointments[2].status = "scheduled"
    /\ appointments[2].created_at > appointments[1].cancelled_at

(* C20: the stored document is the appointments and the patients in memory
   whenever a call has returned, so after every create_appointment and
   cancel_appointment that succeeded and every patient added; a read method
   changes neither the lists in memory nor the document; the lists change
   only in a create, book or cancel call. *)
C20_DocumentIsMemory ==
    /\ [](persisted = Document(appointments, patients))
    /\ [][(last'.op \in ReadOps /\ last' # last)
             => /\ appointments' = appointments
                /\ patients' = patients
                /\ persisted' = persisted]_vars
    /\ [][<<appointments, patients, persisted>>'
               # <<appointments, patients, persisted>>
             => /\ last'.op \in {"create_appointment", "book_appointment",
                                  "cancel_appointment"}
                /\ persisted'.appointments = appointments'
                /\ persisted'.patients = patients']_vars

\* The document holds a cancelled appointment, a scheduled one and a
\* patient, and a read method was the last call.
C20_Witness ==
    /\ last.op = "get_available_times"
    /\ Len(persisted.appointments) = 2
    /\ persisted.appointments[1].status = "cancelled"
    /\ persisted.appointments[2].status = "scheduled"
    /\ Len(persisted.patients) >= 1
    /\ persisted = Document(appointments, patients)

\* The places in the list of the doctors whose name has the text in it,
\* letter case aside.
NameMatches(ds, name) ==
    {i \in 1..Len(ds) :
        \E at \in 0..(Len(ds[i].name) - Len(name)) :
            \A k \in 1..Len(name) :
                LowerChar(ds[i].name[at + k]) = LowerChar(name[k])}

\* What C22 expects of a call for the doctors ds of its specialty.
C22_Expected(ds, name) ==
    IF Falsy(name)
    THEN last'.success
            => /\ last'.doctor_id = ds[1].id
               /\ appointments'[Len(appointments')].doctor_id = ds[1].id
    ELSE \E matches \in {NameMatches(ds, name)} :
         IF matches = {}
         THEN /\ ~last'.success
              /\ last'.message = "doctor_not_found"
              /\ appointments' = appointments
              /\ patients' = patients
         ELSE /\ last'.message # "doctor_not_found"
              /\ last'.success
                    => \E first \in matches :
                          /\ \A i \in matches : first <= i
                          /\ last'.doctor_id = ds[first].id
                          /\ appointments'[Len(appointments')].doctor_id
                                = ds[first].id

(* C22: book_appointment takes the first doctor of the specialty in store
   order when no doctor is named and the first whose name contains the name
   asked for, letter case aside, when one is named; when no doctor of the
   specialty has that name the call returns success = false, takes no other
   doctor and creates neither an appointment nor a patient. *)
C22_DoctorResolution ==
    [][(/\ BookStep
        /\ ~Falsy(last'.args.doctor_specialty)
        /\ ~HoldsNoMappingKey(last'.args.doctor_specialty))
          => \E ds \in {SelectSeq(doctors, LAMBDA d :
                            d.specialty =
                              normalize_specialty(last'.args.doctor_specialty))} :
                ds # <<>> => C22_Expected(ds, last'.args.doctor_name)]_vars

\* One appointment was booked with the second therapist by his first name,
\* and a call naming a doctor who is no therapist has just been refused.
C22_Witness ==
    /\ last.op = "book_appointment"
    /\ last.args.doctor_name = Text_Sidorova
    /\ last.message = "doctor_not_found"
    /\ Len(appointments) = 1
    /\ appointments[1].doctor_id = "petrov_sm"

\* The offsets among the max_days days from today at which the doctor has a
\* free time.
FreeOffsets(doctor_id) ==
    {n \in 0..(max_days - 1) :
        get_available_times(appointments, doctor_id,
                            StrfDate(Today(now) + n)) # <<>>}

(* C23: a book_appointment call without a date takes the earliest of the 14
   days starting today on which the doctor has a free time; when there is no
   such day the date is tomorrow's and the call fails without committing
   anything. *)
C23_NextAvailableDate ==
    [][(/\ BookStep
        /\ Falsy(last'.args.date)
        /\ last'.args.doctor_specialty = Text_Terapevt
        /\ Falsy(last'.args.doctor_name))
          => \E free \in {FreeOffsets("ivanova_ap")} :
                IF free # {}
                THEN last'.success
                        => \E first \in free :
                              /\ \A n \in free : first <= n
                              /\ last'.date = StrfDate(Today(now) + first)
                              /\ appointments'[Len(appointments')].date
                                    = StrfDate(Today(now) + first)
                ELSE /\ ~last'.success
                     /\ appointments' = appointments
                     /\ patients' = patients]_vars

\* A call has just appended an appointment.
CommitStep == Len(appointments') = Len(appointments) + 1

(* C29: every appointment that book_appointment or create_appointment commits
   has a time from the start of the doctor's window of that weekday up to,
   and not at, its end: no appointment is committed at closing time. *)
C29_CommittedInsideWindow ==
    [][CommitStep
          => \E new \in {appointments'[Len(appointments')]} :
                /\ HasWindow(new.doctor_id, new.date)
                /\ StrpTime(new.time) # Invalid
                /\ StrpTime(WindowOf(new.doctor_id, new.date).start)
                      <= StrpTime(new.time)
                /\ StrpTime(new.time)
                      < StrpTime(WindowOf(new.doctor_id, new.date).end)]_vars

(* C30: with the calls made one at a time, a book_appointment call that
   returns success = false leaves the appointments and the patients as they
   were, and a patient is added only by a call that also commits an
   appointment. *)
C30_FailedBookingWritesNothing ==
    [][BookStep
          => /\ ~last'.success
                   => /\ appointments' = appointments
                      /\ patients' = patients
             /\ patients' # patients
                   => /\ last'.success
                      /\ Len(appointments') = Len(appointments) + 1
                      /\ appointments'[Len(appointments')].patient_phone
                            = patients'[Len(patients')].phone]_vars

\* A patient was added by an earlier call, and a call that named a free time
\* and a phone but no name has just been refused.
C30_Witness ==
    /\ last.op = "book_appointment"
    /\ ~last.success
    /\ last.message = "need_name"
    /\ ~Falsy(last.args.patient_phone)
    /\ Len(patients) = 1
    /\ Len(appointments) = 1

-----------------------------------------------------------------------------
(* Properties of the agent's appointment turns, continued.                 *)

\* The last step was an appointment turn.
TurnStep ==
    <<turn, appointment_context, appointments, patients, last>>'
        # <<turn, appointment_context, appointments, patients, last>>

\* The context is one the turn can have merged from the context before it.
MergedThisTurn(merged) ==
    \E info \in ExtractedInfos :
        merged = [k \in DOMAIN appointment_context \cup DOMAIN info |->
                     IF k \in DOMAIN info THEN info[k]
                     ELSE appointment_context[k]]

\* The place of a field in the order the agent asks in.
AskRank(field) ==
    CASE field = "specialty" -> 1
      [] field = "patient_name" -> 2
      [] field = "patient_phone" -> 3

\* The required fields a context holds no value for: no key, None or "".
Unfilled(context) ==
    {field \in {"specialty", "patient_name", "patient_phone"} :
        \/ field \notin DOMAIN context
        \/ context[field] = None
        \/ context[field] = <<>>}

(* C14: a turn after whose merge a required field (specialty, patient_name,
   patient_phone) is absent or empty asks for the first one or two missing
   fields in that order, does not call book_appointment, leaves the store as
   it was and keeps the merged context. *)
C14_MissingFieldAsksOnly ==
    [][(TurnStep /\ Unfilled(turn'.merged) # {})
          => /\ MergedThisTurn(turn'.merged)
             /\ ~turn'.called
             /\ last' = last
             /\ appointments' = appointments
             /\ patients' = patients
             /\ persisted' = persisted
             /\ appointment_context' = turn'.merged
             /\ \E asked \in {turn'.asked} : \E unfilled \in {Unfilled(turn'.merged)} :
                   /\ Len(asked) = IF Cardinality(unfilled) < 2
                                    THEN Cardinality(unfilled) ELSE 2
                   /\ \A k \in 1..Len(asked) : asked[k] \in unfilled
                   /\ \A k \in 1..(Len(asked) - 1) :
                         AskRank(asked[k]) < AskRank(asked[k + 1])
                   /\ \A field \in unfilled :
                         (\A k \in 1..Len(asked) : asked[k] # field)
                            => \A k \in 1..Len(asked) :
                                  AskRank(asked[k]) < AskRank(field)]_vars

\* After one booking, a turn whose context has a specialty, a phone and an
\* empty name has asked for the name only.
C14_Witness ==
    /\ Len(appointments) = 1
    /\ ~turn.called
    /\ "patient_name" \in DOMAIN turn.merged
    /\ turn.merged["patient_name"] = <<>>
    /\ turn.asked = <<"patient_name">>
    /\ appointment_context = turn.merged

(* C15: after a turn in which book_appointment returned success the booking
   context is empty, and the next turn starts from nothing: its merged context
   is what that turn's message gave, and every required field the message did
   not give is missing again. *)
C15_SuccessClearsContext ==
    /\ []((turn.called /\ turn.success) => appointment_context = EmptyDict)
    /\ [][(turn.called /\ turn.success /\ TurnStep)
             => /\ turn'.merged \in ExtractedInfos
                /\ \A field \in {"specialty", "patient_name", "patient_phone"} :
                      field \notin DOMAIN turn'.merged
                         => /\ ~turn'.called
                            /\ \E k \in 1..Len(turn'.missing) :
                                  turn'.missing[k] = field]_vars

\* A turn has just booked an appointment from a context that held a
\* specialty, a name and a phone.
C15_Witness ==
    /\ turn.called
    /\ turn.success
    /\ last.success
    /\ Len(appointments) >= 1
    /\ {"specialty", "patient_name", "patient_phone"} \subseteq DOMAIN turn.merged
    /\ appointment_context = EmptyDict

(* C16: after a turn in which book_appointment was called and failed, the
   booking context holds exactly the keys and values it held after that
   turn's merge. *)
C16_FailureKeepsContext ==
    [][(TurnStep /\ turn'.called /\ ~turn'.success)
          => /\ MergedThisTurn(turn'.merged)
             /\ ~last'.success
             /\ DOMAIN appointment_context' = DOMAIN turn'.merged
             /\ \A k \in DOMAIN turn'.merged :
                   appointment_context'[k] = turn'.merged[k]]_vars

\* A turn has just asked for ivanova_ap's Monday 09:00, which is held, and
\* the context still has the specialty, the name, the phone, the date and
\* the time.
C16_Witness ==
    /\ turn.called
    /\ ~turn.success
    /\ last.message = "time_taken"
    /\ DOMAIN appointment_context =
          {"specialty", "patient_name", "patient_phone", "date", "time"}
    /\ appointment_context["date"] = D_Mon
    /\ appointment_context["time"] = T_0900

\* The fields of a context that hold a value: a key with a text that is
\* neither None nor empty.
Filled(context) == {k \in DOMAIN context : ~Falsy(context[k])}

(* C21: the merge of a turn never loses a value: a field that held a value
   before the turn holds a value after the merge, the same one unless the
   turn's extraction gave a new non-empty one; so the filled fields of the
   merged context include those of the context before. *)
C21_MergeKeepsValues ==
    [][TurnStep
          => \A k \in Filled(appointment_context) :
                /\ k \in Filled(turn'.merged)
                /\ \/ turn'.merged[k] = appointment_context[k]
                   \/ \E info \in ExtractedInfos :
                         /\ k \in Filled(info)
                         /\ turn'.merged[k] = info[k]]_vars

-----------------------------------------------------------------------------
(* Properties of the extraction of dates.                                  *)

\* The text the last parse_date_from_text call was given, in lower case.
ParsedLower == Lower(parsed.text)

\* YYYY-MM-DD of the day so many days after the day of the last call.
IsoDaysAfterCall(days) ==
    With(FromOrdinal(Today(parsed.at) + days), LAMBDA ymd :
        <<DigitChar(ymd[1] \div 1000), DigitChar((ymd[1] \div 100) % 10),
          DigitChar((ymd[1] \div 10) % 10), DigitChar(ymd[1] % 10), "-",
          DigitChar(ymd[2] \div 10), DigitChar(ymd[2] % 10), "-",
          DigitChar(ymd[3] \div 10), DigitChar(ymd[3] % 10)>>)

(* C19: parse_date_from_text gives today for a text with the word for today,
   the day after the call for a text with the word for tomorrow, and the
   second day after the call for a text with the word for the day after
   tomorrow, each as YYYY-MM-DD. *)
C19_RelativeWords ==
    parsed.op = "parse_date_from_text" =>
        /\ Contains(ParsedLower, Kw_Segodnya)
              => parsed.result = IsoDaysAfterCall(0)
        /\ (Contains(ParsedLower, Kw_Zavtra)
                /\ ~Contains(ParsedLower, Kw_Poslezavtra))
              => parsed.result = IsoDaysAfterCall(1)
        /\ Contains(ParsedLower, Kw_Poslezavtra)
              => parsed.result = IsoDaysAfterCall(2)

\* Whether the word is in the text as a whole word, with spaces or the ends
\* of the text around it.
HasWord(text, word) ==
    \E at \in 0..(Len(text) - Len(word)) :
        /\ \A k \in 1..Len(word) : text[at + k] = word[k]
        /\ at = 0 \/ text[at] = " "
        /\ at + Len(word) = Len(text) \/ text[at + Len(word) + 1] = " "

\* The weekdays the last text names, by a full or a short name.
NamedWeekdays ==
    {weekday_mapping[k][2] :
        k \in {m \in 1..Len(weekday_mapping) :
                  HasWord(ParsedLower, weekday_mapping[m][1])}}

HasRelativeWord ==
    \/ Contains(ParsedLower, Kw_Segodnya)
    \/ Contains(ParsedLower, Kw_Zavtra)
    \/ Contains(ParsedLower, Kw_Poslezavtra)

(* C24: for a text that names a weekday and has no relative word,
   parse_date_from_text gives a date on that weekday from 1 to 7 days after
   the day of the call: never that day itself, and the day a week later when
   the call is made on that weekday. *)
C24_WeekdayDates ==
    (/\ parsed.op = "parse_date_from_text"
     /\ parsed.text # None
     /\ ~HasRelativeWord)
        => \A weekday \in NamedWeekdays :
              NamedWeekdays = {weekday}
                 => \E days \in 1..7 :
                       /\ parsed.result = IsoDaysAfterCall(days)
                       /\ WeekdayName(Today(parsed.at) + days) = weekday

\* Whether the last text has the key of a weekday in it.
HasWeekdayKey ==
    \E k \in 1..Len(weekday_mapping) :
        Contains(ParsedLower, weekday_mapping[k][1])

\* -MM-DD, the end of a date text for the month and the day.
MonthDayTail(month, day) ==
    <<"-">> \o ZeroPad(month, 2) \o <<"-">> \o ZeroPad(day, 2)

(* C25: the rules of the date extraction are tried in the order relative
   word, weekday name, DD.MM.YYYY, DD month-name, DD.MM and the first that
   matches decides; so for a text with no relative word, no weekday and no
   DD.MM.YYYY but with a valid DD month-name fragment the result is the day and
   month of that fragment, also when the text has a DD.MM fragment too. *)
C25_MonthNameBeforeDayMonth ==
    (/\ parsed.op = "parse_date_from_text"
     /\ parsed.text # None
     /\ ~HasRelativeWord
     /\ ~HasWeekdayKey
     /\ SearchDayMonthYear(ParsedLower) = <<>>)
        => \A named \in {SearchDayName(ParsedLower)} :
              (/\ named # <<>>
               /\ MakeDate(2024, named[2], IntOf(named[1])) # Invalid)
                 => /\ Len(parsed.result) = 10
                    /\ SubSeq(parsed.result, 5, 10)
                          = MonthDayTail(named[2], IntOf(named[1]))

\* The day and the month of the one fragment of the last text that is a
\* DD.MM or a DD month-name, as <<day, month>>; <<>> when the text has none
\* or has both.
DayAndMonth ==
    With(SearchDayMonth(ParsedLower), LAMBDA short :
    With(SearchDayName(ParsedLower), LAMBDA named :
        IF short # <<>> /\ named = <<>>
        THEN <<IntOf(short[1]), IntOf(short[2])>>
        ELSE IF short = <<>> /\ named # <<>>
        THEN <<IntOf(named[1]), named[2]>>
        ELSE <<>>))

\* The year of the day of the last call.
YearOfCall == FromOrdinal(Today(parsed.at))[1]

(* C26: for a text with a valid day and month as DD.MM or DD month-name, the
   date extracted is that day of the current year when it is today or later,
   and that day of the next year only when it is before today. *)
C26_YearOfDayAndMonth ==
    (/\ parsed.op = "parse_date_from_text"
     /\ parsed.text # None
     /\ ~HasRelativeWord
     /\ ~HasWeekdayKey
     /\ SearchDayMonthYear(ParsedLower) = <<>>)
        => \A dm \in {DayAndMonth} :
              (/\ dm # <<>>
               /\ MakeDate(YearOfCall, dm[2], dm[1]) # Invalid
               /\ MakeDate(YearOfCall + 1, dm[2], dm[1]) # Invalid)
                 => parsed.result =
                       IF MakeDate(YearOfCall, dm[2], dm[1]) >= Today(parsed.at)
                       THEN FormatDate(MakeDate(YearOfCall, dm[2], dm[1]))
                       ELSE FormatDate(MakeDate(YearOfCall + 1, dm[2], dm[1]))

(* C27: the extraction of a date never raises and gives a normalized date
   or None; for a text whose DD.MM or DD month-name fragment is no calendar
   date, such as day 32, it gives None and not some date. *)
C27_InvalidDateNotFound ==
    (/\ parsed.op = "parse_date_from_text"
     /\ parsed.text # None
     /\ ~HasRelativeWord
     /\ ~HasWeekdayKey
     /\ SearchDayMonthYear(ParsedLower) = <<>>)
        => \A dm \in {DayAndMonth} :
              (/\ dm # <<>>
               /\ MakeDate(YearOfCall, dm[2], dm[1]) = Invalid
               /\ MakeDate(YearOfCall + 1, dm[2], dm[1]) = Invalid)
                 => parsed.result = None

-----------------------------------------------------------------------------
(* Properties of the extraction of times.                                  *)

\* HH:MM for an hour below 100 and the two digits of the minutes.
Clock(hour, minutes) ==
    <<DigitChar(hour \div 10), DigitChar(hour % 10), ":">> \o minutes

\* What the rule of that number makes of the groups of its match.
RuleTime(rule, groups) ==
    With(IntOf(groups[1]), LAMBDA hh :
        CASE rule \in {1, 2} -> Clock(hh, groups[2])
          [] rule = 3 -> Clock(hh, <<"0", "0">>)
          [] rule = 4 -> IF hh = 12 THEN <<"0", "0", ":", "0", "0">>
                         ELSE Clock(hh, <<"0", "0">>)
          [] rule \in {5, 6} -> IF hh < 12 THEN Clock(hh + 12, <<"0", "0">>)
                                ELSE Clock(hh, <<"0", "0">>))

(* C28: the rules of the time extraction are tried in the order HH:MM,
   HH.MM, 'в HH', 'HH утра', 'HH дня', 'HH вечера' and the first that matches
   decides: HH:MM and HH.MM give the time as written, 'в HH' gives HH:00,
   'HH утра' gives HH:00 but 00:00 for 12, 'HH дня' and 'HH вечера' give
   (HH+12):00 for HH below 12 and HH:00 otherwise; a text that matches no rule
   gives None. *)
C28_TimeRules ==
    parsed.op = "parse_time_from_text" =>
        \A matching \in {{rule \in 1..6 :
                             SearchTime(ParsedLower, rule) # <<>>}} :
            IF matching = {} THEN parsed.result = None
            ELSE \E rule \in matching :
                    /\ \A other \in matching : rule <= other
                    /\ parsed.result =
                          RuleTime(rule, SearchTime(ParsedLower, rule))

\* Six in the evening was read as 18:00.
C28_Witness ==
    /\ parsed.op = "parse_time_from_text"
    /\ parsed.text = <<"6", " ">> \o time_words[3]
    /\ parsed.result = <<"1", "8", ":", "0", "0">>

====
